---- MODULE Spec2Model ----
(***************************************************************************)
(* Wikipedia link highlighter user scripts.                                *)
(*                                                                         *)
(* Strings are sequences of one-character strings, positions are the       *)
(* 0-based offsets JavaScript uses: offset p lies between text[p] and      *)
(* text[p+1] of the 1-based TLA+ sequence.                                 *)
(***************************************************************************)
EXTENDS Integers, Sequences, FiniteSets, TLC

(***************************************************************************)
(* Characters and the regular-expression primitives the scripts use        *)
(***************************************************************************)
UpperChars ==
  <<"A","B","C","D","E","F","G","H","I","J","K","L","M",
    "N","O","P","Q","R","S","T","U","V","W","X","Y","Z">>

LowerChars ==
  <<"a","b","c","d","e","f","g","h","i","j","k","l","m",
    "n","o","p","q","r","s","t","u","v","w","x","y","z">>

DigitChars == {"0","1","2","3","4","5","6","7","8","9"}

UpperSet == {UpperChars[i] : i \in 1..26}

LowerSet == {LowerChars[i] : i \in 1..26}

\* String.prototype.toLowerCase on one character
LowerMap == [c \in UpperSet |-> LowerChars[CHOOSE i \in 1..26 : UpperChars[i] = c]]

toLowerChar(c) == IF c \in UpperSet THEN LowerMap[c] ELSE c

toLowerCase(s) == [i \in 1..Len(s) |-> toLowerChar(s[i])]

\* \w of a JavaScript regular expression
IsWordChar(c) == c \in UpperSet \cup LowerSet \cup DigitChars \cup {"_"}

\* \s of a JavaScript regular expression (the characters the pages use)
IsSpace(c) == c \in {" ", "\n"}

\* \b at offset p: exactly one of the neighbours is a word character
WordBoundary(text, p) ==
  (p >= 1 /\ IsWordChar(text[p])) # (p < Len(text) /\ IsWordChar(text[p + 1]))

\* text.substring(from, to)
substring(text, from, to) == SubSeq(text, from + 1, to)

\* s.includes(t)
includes(s, t) ==
  \E p \in 0..(Len(s) - Len(t)) : substring(s, p, p + Len(t)) = t

MinOf(S) == CHOOSE x \in S : \A y \in S : x <= y

\* adding to a Set or an array used as one: insertion order, no duplicates
AddOnce(seq, x) == IF \E i \in 1..Len(seq) : seq[i] = x THEN seq ELSE Append(seq, x)

RECURSIVE AddAll(_, _)
AddAll(seq, xs) ==
  IF xs = <<>> THEN seq ELSE AddAll(AddOnce(seq, Head(xs)), Tail(xs))

RECURSIVE Flatten(_)
Flatten(seqs) == IF seqs = <<>> THEN <<>> ELSE Head(seqs) \o Flatten(Tail(seqs))

\* (escaped literal) of a regular expression at offset p; fold is the i flag
LiteralAt(text, p, lit, fold) ==
  /\ p + Len(lit) <= Len(text)
  /\ \A k \in 1..Len(lit) :
       IF fold THEN toLowerChar(text[p + k]) = toLowerChar(lit[k])
               ELSE text[p + k] = lit[k]

\* \b(term)\b at offset p
TermAt(text, p, term, fold) ==
  /\ LiteralAt(text, p, term, fold)
  /\ WordBoundary(text, p)
  /\ WordBoundary(text, p + Len(term))

(***************************************************************************)
(* Wikipedia Advanced Word Highlighter (src/TS14(imp).js): state           *)
(***************************************************************************)
VARIABLES
  wikiTerms,       \* Map lower-cased term -> term, as its entries in insertion order
  cache,           \* { exists, notExists, timestamp }
  stored,          \* what GM_getValue('wikiHighlightCache') returns
  currentArticle,
  isProcessing,
  shouldStop,
  processedCount,
  totalCount,
  requestCount,
  requestTimer,    \* TRUE once setInterval has been called
  now,             \* Date.now()
  paragraphs,      \* the p elements of #mw-content-text
  page,            \* the document as served: firstHeading, link titles, paragraphs
  registry,        \* the titles that have a page on the wiki
  pc,              \* where the init() chain of awaits stands
  queue,           \* paragraphs processAllParagraphs has still to visit
  toCheck,         \* highlightParagraph: the filtered candidates
  batchStart,      \* highlightParagraph: the loop variable i
  pending,         \* titles of the fetch in flight
  requests,        \* every title list sent to the registry by checkPagesExist
  reads,           \* age in ms of every cache record the last checkPagesExist used
  validLog,        \* per text node of the last highlightInParagraph: matches, validMatches
  runs,            \* calls of highlightInParagraph so far
  sinceReset,      \* ms since the interval timer was set or last fired
  admitted,        \* ages in ms of the calls canMakeRequest admitted in the last minute
  CONFIG,          \* the settings in use: enabled
  savedConfig      \* what GM_getValue('wikiHighlightConfig') returns

ts14Vars ==
  <<wikiTerms, cache, stored, currentArticle, isProcessing, shouldStop,
    processedCount, totalCount, requestCount, requestTimer, now, paragraphs,
    page, registry, pc, queue, toCheck, batchStart, pending, requests, reads,
    validLog, runs, sinceReset, admitted, CONFIG, savedConfig>>

(***************************************************************************)
(* highlight-unlinked-terms (src/unnamed/part_005): state                  *)
(***************************************************************************)
VARIABLES
  content,                \* the text nodes below the p children of $content: text, parent tag
  textNodesInParagraphs,  \* the nodes collectTextNodes returns
  candidateWords,         \* Set, as its elements in insertion order
  allApiPromises,         \* per chunk: "pending", "ok", "nopages" or "rejected"
  finalTermsToHighlight,  \* Set, as its elements in insertion order
  marks,                  \* the mark elements: text node, offset in its text, term
  hutPc                   \* where the hook callback and its promises stand

hutVars ==
  <<content, textNodesInParagraphs, candidateWords, allApiPromises,
    finalTermsToHighlight, marks, hutPc>>

\* the hook has not fired
HutOff ==
  /\ content = <<>>
  /\ textNodesInParagraphs = <<>>
  /\ candidateWords = <<>>
  /\ allApiPromises = <<>>
  /\ finalTermsToHighlight = <<>>
  /\ marks = {}
  /\ hutPc = "off"

(***************************************************************************)
(* Wikipedia Smart Highlight Advanced (src/TS9.js): state                  *)
(***************************************************************************)
VARIABLES
  root,                \* #mw-content-text: the titles its links point to, its text nodes
  existingLinks,       \* Set, as its elements in insertion order
  allRelatedArticles,  \* Set, as its elements in insertion order
  wordsToHighlight,    \* what filterByRelatedArticles returns: text, article
  replaced,            \* per text node of root: the innerHTML of the span put in its place
  smartPc              \* where main() stands

\* the script is not installed
SmartOff ==
  /\ root = [links |-> <<>>, nodes |-> <<>>]
  /\ existingLinks = <<>>
  /\ allRelatedArticles = <<>>
  /\ wordsToHighlight = <<>>
  /\ replaced = <<>>
  /\ smartPc = "off"

(***************************************************************************)
(* Wikipedia Smart Editor Assistant (src/unnamed/part_004): state          *)
(***************************************************************************)
VARIABLES
  wiki,             \* the article read, and what the wiki and Wikidata answer about it
  relevantTerms,    \* Map term -> {score, count}, as its entries in insertion order
  wordOccurrences,  \* Map term -> {count}, as its entries in insertion order
  analyses,         \* the calls of analyzeAndBuildTermList: where each stands, its locals
  highlights        \* per paragraph: dataset.highlighted, the spans put into it

\* the script is not installed
SeaOff ==
  /\ wiki = [title |-> <<>>, paragraphs |-> <<>>, links |-> {}, entities |-> <<>>,
             pages |-> {}]
  /\ relevantTerms = <<>>
  /\ wordOccurrences = <<>>
  /\ analyses = <<>>
  /\ highlights = <<>>

\* highlight-unlinked-terms, fixed v2 (src/unnamed/part_005)
VARIABLES
  v2   \* pageTextNodes, toCheck, promises, existing, alreadyHighlighted and
       \* where the script and the promise of Promise.all stand

\* the script is not installed
V2Off ==
  v2 = [pc |-> "off", contentElem |-> <<>>, pageTextNodes |-> <<>>, toCheck |-> <<>>,
        promises |-> <<>>, existing |-> <<>>, alreadyHighlighted |-> <<>>, spans |-> <<>>]

\* the occurrence scan of highlightTextNode, step by step (src/TS14(imp).js)
VARIABLES
  scan   \* the text, the terms, the term at work, regex.lastIndex, matches.length

\* no text node is being scanned
ScanOff ==
  scan = [pc |-> "off", text |-> <<>>, terms |-> <<>>, term |-> 1, lastIndex |-> 0,
          matches |-> 0, calls |-> 0]

\* Wikipedia Smart Word Highlighter, version 7.0 (src/unnamed/part_002)
VARIABLES
  v7   \* the article, allWords, enabled and the paragraphs of the page

\* the script is not installed
V7Off ==
  v7 = [pc |-> "off", timer |-> FALSE, currentArticle |-> <<>>, highlightsEnabled |-> TRUE,
        isProcessing |-> FALSE, relevantTerms |-> <<>>, wordOccurrences |-> <<>>,
        allText |-> <<>>, articleLinks |-> {}, allWords |-> <<>>, batch |-> 0,
        paragraphs |-> <<>>, served |-> <<>>, pages |-> {}, links |-> {}, clicks |-> 0]

restVars ==
  <<root, existingLinks, allRelatedArticles, wordsToHighlight, replaced, smartPc,
    wiki, relevantTerms, wordOccurrences, analyses, highlights, v2, scan, v7>>

RestOff == SmartOff /\ SeaOff /\ V2Off /\ ScanOff /\ V7Off

blacklist ==
  << <<"J","a","n","u","a","r","y">>,
     <<"F","e","b","r","u","a","r","y">>,
     <<"M","a","r","c","h">>,
     <<"A","p","r","i","l">>,
     <<"M","a","y">>,
     <<"J","u","n","e">>,
     <<"J","u","l","y">>,
     <<"A","u","g","u","s","t">>,
     <<"S","e","p","t","e","m","b","e","r">>,
     <<"O","c","t","o","b","e","r">>,
     <<"N","o","v","e","m","b","e","r">>,
     <<"D","e","c","e","m","b","e","r">> >>

commonWords ==
  << <<"t","h","i","s">>,
     <<"t","h","a","t">>,
     <<"t","h","e","s","e">>,
     <<"t","h","o","s","e">>,
     <<"w","i","t","h">>,
     <<"f","r","o","m">>,
     <<"h","a","v","e">>,
     <<"b","e","e","n">>,
     <<"w","e","r","e">>,
     <<"t","h","e","i","r">>,
     <<"t","h","e","r","e">>,
     <<"w","h","e","r","e">>,
     <<"w","h","a","t">>,
     <<"w","h","e","n">> >>

\* /^\d+$/
AllDigits(word) == Len(word) >= 1 /\ \A i \in 1..Len(word) : word[i] \in DigitChars

\* /^\d{1,2}(st|nd|rd|th)$/
Ordinal(word) ==
  /\ Len(word) \in {3, 4}
  /\ \A i \in 1..(Len(word) - 2) : word[i] \in DigitChars
  /\ substring(word, Len(word) - 2, Len(word)) \in
       {<<"s","t">>, <<"n","d">>, <<"r","d">>, <<"t","h">>}

\* the stoplist part of shouldExclude: CONFIG.blacklist and commonWords
InStoplist(lower) ==
  \/ \E i \in 1..Len(blacklist) : toLowerCase(blacklist[i]) = lower
  \/ \E i \in 1..Len(commonWords) : commonWords[i] = lower

\* the variant of shouldExclude that forgets the stoplist
shouldExcludeNoStoplist(word, article) ==
  \/ toLowerCase(word) = toLowerCase(article)
  \/ AllDigits(word)
  \/ Ordinal(word)

shouldExcludeIn(word, article) ==
  LET lower == toLowerCase(word) IN
    \/ lower = toLowerCase(article)
    \/ \E i \in 1..Len(blacklist) : toLowerCase(blacklist[i]) = lower
    \/ AllDigits(word)
    \/ Ordinal(word)
    \/ \E i \in 1..Len(commonWords) : commonWords[i] = lower

shouldExclude(word) == shouldExcludeIn(word, currentArticle)

(***************************************************************************)
(* highlightTextNode and highlightInParagraph                              *)
(***************************************************************************)
\* the while loop over regex.exec with the g flag, from lastIndex on
RECURSIVE ExecAll(_, _, _, _)
ExecAll(text, term, fold, lastIndex) ==
  LET found == {p \in lastIndex..(Len(text) - Len(term)) : TermAt(text, p, term, fold)}
  IN IF found = {} THEN <<>>
     ELSE LET p == MinOf(found)
          IN <<[start |-> p, end |-> p + Len(term),
                text |-> substring(text, p, p + Len(term))]>>
             \o ExecAll(text, term, fold, p + Len(term))

\* wikiTerms.forEach: the matches of every term that is not excluded
RECURSIVE CollectMatches(_, _, _)
CollectMatches(text, terms, article) ==
  IF terms = <<>> THEN <<>>
  ELSE (IF shouldExcludeIn(Head(terms).term, article) THEN <<>>
        ELSE ExecAll(text, Head(terms).term, TRUE, 0))
       \o CollectMatches(text, Tail(terms), article)

\* Array.prototype.sort with (a, b) => a.start - b.start, which is stable
RECURSIVE SortByStart(_)
SortByStart(ms) ==
  IF Len(ms) <= 1 THEN ms
  ELSE LET rest == SortByStart(SubSeq(ms, 1, Len(ms) - 1))
           last == ms[Len(ms)]
           k    == Cardinality({i \in 1..Len(rest) : rest[i].start <= last.start})
       IN SubSeq(rest, 1, k) \o <<last>> \o SubSeq(rest, k + 1, Len(rest))

\* an overlap test that looks at the end of the match only
overlapsEndOnly(match, m) == match.end > m.start /\ match.end <= m.end

\* the test inside validMatches.some
overlaps(match, m) ==
  \/ match.start >= m.start /\ match.start < m.end
  \/ match.end > m.start /\ match.end <= m.end

RECURSIVE AcceptMatches(_, _)
AcceptMatches(ms, valid) ==
  IF ms = <<>> THEN valid
  ELSE AcceptMatches(Tail(ms),
         IF \E i \in 1..Len(valid) : overlaps(Head(ms), valid[i])
         THEN valid ELSE Append(valid, Head(ms)))

matchesOf(text, terms, article) == SortByStart(CollectMatches(text, terms, article))

validMatchesOf(text, terms, article) == AcceptMatches(matchesOf(text, terms, article), <<>>)

\* a text node: its text, the tag of its parent, the marked kinds of its ancestors
TextNode(text, parentTag, ancestors) ==
  [text |-> text, parentTag |-> parentTag, ancestors |-> ancestors]

\* character references the HTML parser resolves in the text of newHTML
DecodeEntities(s) ==
  LET entity(i) == IF i + 4 <= Len(s) /\ SubSeq(s, i, i + 4) = <<"&","a","m","p",";">> THEN 5
                   ELSE IF i + 3 <= Len(s) /\ SubSeq(s, i, i + 3) = <<"&","l","t",";">> THEN 4
                   ELSE IF i + 3 <= Len(s) /\ SubSeq(s, i, i + 3) = <<"&","g","t",";">> THEN 4
                   ELSE 0
      inside(i) == \E j \in 1..(i - 1) : entity(j) > i - j
      at == SelectSeq([i \in 1..Len(s) |-> i], LAMBDA i : ~inside(i))
  IN <<>> \o [k \in 1..Len(at) |->
                IF entity(at[k]) = 5 THEN "&"
                ELSE IF entity(at[k]) = 4 THEN (IF s[at[k] + 1] = "l" THEN "<" ELSE ">")
                ELSE s[at[k]]]

\* newHTML parsed by wrapper.innerHTML: text children of the wrapper span and the
\* text children of the data-wiki-highlight spans, empty strings give no node
RECURSIVE BuildNodes(_, _, _, _)
BuildNodes(node, valid, k, lastIndex) ==
  IF k > Len(valid)
  THEN (IF lastIndex < Len(node.text)
        THEN <<TextNode(DecodeEntities(substring(node.text, lastIndex, Len(node.text))),
                        "SPAN", node.ancestors)>>
        ELSE <<>>)
  ELSE (IF lastIndex < valid[k].start
        THEN <<TextNode(DecodeEntities(substring(node.text, lastIndex, valid[k].start)),
                        "SPAN", node.ancestors)>>
        ELSE <<>>)
       \o <<TextNode(DecodeEntities(valid[k].text), "SPAN", node.ancestors \cup {"HL"})>>
       \o BuildNodes(node, valid, k + 1, valid[k].end)

\* what stands in the place of the text node after highlightTextNode
highlightTextNode(node, terms, article) ==
  LET valid == validMatchesOf(node.text, terms, article)
  IN IF valid = <<>> THEN <<node>> ELSE BuildNodes(node, valid, 1, 0)

\* acceptNode of the TreeWalker
acceptNode(node) == ~(node.parentTag = "A" \/ "HL" \in node.ancestors)

highlightInParagraph(nodes, terms, article) ==
  Flatten([i \in 1..Len(nodes) |->
             IF acceptNode(nodes[i]) THEN highlightTextNode(nodes[i], terms, article)
             ELSE <<nodes[i]>>])

\* the matches and validMatches of each text node the walker accepts
MatchLog(nodes, terms, article) ==
  [i \in 1..Len(nodes) |->
     IF acceptNode(nodes[i])
     THEN [matches |-> matchesOf(nodes[i].text, terms, article),
           valid |-> validMatchesOf(nodes[i].text, terms, article)]
     ELSE [matches |-> <<>>, valid |-> <<>>]]

\* Map.prototype.set
RECURSIVE MapSet(_, _, _)
MapSet(m, lower, term) ==
  IF m = <<>> THEN <<[lower |-> lower, term |-> term]>>
  ELSE IF Head(m).lower = lower THEN <<[lower |-> lower, term |-> term]>> \o Tail(m)
  ELSE <<Head(m)>> \o MapSet(Tail(m), lower, term)

MapHas(m, lower) == \E i \in 1..Len(m) : m[i].lower = lower


(***************************************************************************)
(* Bounds of the annotator runs                                            *)
(***************************************************************************)
MaxWords == 4

MaxTerms == 2

MaxRuns == 2

\* the words of the text nodes and the terms of wikiTerms the annotator is run on
NodeWords == {<<"a">>, <<"x">>}

NodeTerms ==
  {<<"a">>, <<"x">>, <<"a"," ","a">>, <<"X"," ","a">>, <<"a"," ","x">>}

RECURSIVE JoinWords(_)
JoinWords(ws) ==
  IF Len(ws) = 0 THEN <<>>
  ELSE IF Len(ws) = 1 THEN ws[1]
  ELSE ws[1] \o <<" ">> \o JoinWords(Tail(ws))

TextsOf(words, n) ==
  UNION {{JoinWords(f) : f \in [1..k -> words]} : k \in 1..n}

TermMapsOf(terms, n) ==
  UNION {{[i \in 1..k |-> [lower |-> toLowerCase(f[i]), term |-> f[i]]] :
            f \in {g \in [1..k -> terms] : \A i, j \in 1..k : i # j => g[i] # g[j]}} :
         k \in 1..n}

Paragraph(nodes) ==
  [nodes |-> nodes, highlighted |-> FALSE, inViewport |-> TRUE, inTable |-> FALSE]

EmptyCache(t) == [exists |-> <<>>, notExists |-> <<>>, timestamp |-> t]

\* the stored value: nothing yet, or the JSON text of a cache object
NothingStored == [kind |-> "none"]

\* a stored text that JSON.parse rejects
NotJson == [kind |-> "text"]

\* a stored text that JSON.parse reads as null, a number or an object without
\* exists, notExists and timestamp
OtherJson == [kind |-> "json"]

\* the value of cache after loadCache has read such a text
NotACache == [kind |-> "json"]

\* cache.exists is an object
Usable(c) == "exists" \in DOMAIN c

\* the stored settings, as saveConfig writes them
SavedSettings(enabled) == [kind |-> "config", enabled |-> enabled]

Saved(c) == [kind |-> "cache", value |-> c]

\* DEFAULT_CONFIG, of which the model follows enabled
DEFAULT_CONFIG == [enabled |-> TRUE]

\* the script's variables as their declarations leave them
Declared ==
  /\ CONFIG = DEFAULT_CONFIG
  /\ wikiTerms = <<>>
  /\ cache = EmptyCache(now)
  /\ currentArticle = <<>>
  /\ isProcessing = FALSE
  /\ shouldStop = FALSE
  /\ processedCount = 0
  /\ totalCount = 0
  /\ requestCount = 0
  /\ requestTimer = FALSE

Idle ==
  /\ stored = NothingStored
  /\ savedConfig = NothingStored
  /\ now = 0
  /\ page = [heading |-> <<>>, links |-> <<>>, paragraphs |-> <<>>]
  /\ registry = {}
  /\ pc = "off"
  /\ queue = <<>>
  /\ toCheck = <<>>
  /\ batchStart = 0
  /\ pending = <<>>
  /\ requests = <<>>
  /\ reads = {}
  /\ sinceReset = 0
  /\ admitted = <<>>

(***************************************************************************)
(* The annotator on one text node, run and run again                       *)
(***************************************************************************)
AnnotInit ==
  /\ cache = EmptyCache(0)
  /\ isProcessing = FALSE
  /\ shouldStop = FALSE
  /\ processedCount = 0
  /\ totalCount = 0
  /\ requestCount = 0
  /\ requestTimer = FALSE
  /\ CONFIG = DEFAULT_CONFIG
  /\ Idle
  /\ HutOff
  /\ RestOff
  /\ wikiTerms \in TermMapsOf(NodeTerms, MaxTerms)
  /\ currentArticle \in {<<>>, <<"x">>}
  /\ \E t \in TextsOf(NodeWords, MaxWords) :
       paragraphs = <<Paragraph(<<TextNode(t, "P", {})>>)>>
  /\ validLog = <<>>
  /\ runs = 0

\* highlightInParagraph(paragraph) on the paragraph as it stands
AnnotRun ==
  /\ runs < MaxRuns
  /\ paragraphs' = [paragraphs EXCEPT ![1].nodes =
                      highlightInParagraph(@, wikiTerms, currentArticle)]
  /\ validLog' = MatchLog(paragraphs[1].nodes, wikiTerms, currentArticle)
  /\ runs' = runs + 1
  /\ UNCHANGED <<wikiTerms, cache, stored, currentArticle, isProcessing, shouldStop,
                 processedCount, totalCount, requestCount, requestTimer, now,
                 page, registry, pc, queue, toCheck, batchStart, pending, requests,
                 reads, sinceReset, admitted, CONFIG, savedConfig, hutVars, restVars>>

AnnotNext == AnnotRun

vars == <<ts14Vars, hutVars, restVars>>

SpecAnnot == AnnotInit /\ [][AnnotNext]_vars

\* the decorated spans of a paragraph, in document order
Decorations(nodes) == SelectSeq(nodes, LAMBDA n : "HL" \in n.ancestors)

\* C1: the matches highlightTextNode accepts for a text node never overlap: of
\* any two of them one ends at or before the start of the other.
NoOverlap ==
  \A n \in 1..Len(validLog) :
    \A i, j \in 1..Len(validLog[n].valid) :
      i # j =>
        \/ validLog[n].valid[i].end <= validLog[n].valid[j].start
        \/ validLog[n].valid[j].end <= validLog[n].valid[i].start

\* a text node with two accepted matches and a match rejected for overlapping
NoOverlapWitness ==
  \E n \in 1..Len(validLog) :
    /\ Len(validLog[n].valid) >= 2
    /\ Len(validLog[n].matches) > Len(validLog[n].valid)

\* C2: running highlightInParagraph on a paragraph it has already decorated adds
\* no decoration and changes none: the decorated spans stay what they were.
RerunAddsNothing ==
  [][runs >= 1 => Decorations(paragraphs'[1].nodes) = Decorations(paragraphs[1].nodes)]_vars


(***************************************************************************)
(* canMakeRequest and its interval timer                                   *)
(***************************************************************************)
\* CONFIG.rateLimit, a setting: kept small
RateLimit == 2

\* the period of setInterval in canMakeRequest
rateWindow == 60000

\* the wait of checkPagesExist before it asks the limiter again
retryWait == 5000

\* the callback of setInterval
ResetCount == requestCount' = 0

\* the value canMakeRequest returns
canMakeRequest == ~(requestCount >= RateLimit)

\* what canMakeRequest does to the limiter
CountRequest ==
  /\ requestTimer' = TRUE
  /\ requestCount' = IF canMakeRequest THEN requestCount + 1 ELSE requestCount

\* the calls admitted less than rateWindow ago, after ms more have passed
Aged(ages, ms) ==
  LET older == [i \in 1..Len(ages) |-> ages[i] + ms]
  IN SelectSeq(older, LAMBDA a : a < rateWindow)

RateInit ==
  /\ Idle
  /\ Declared
  /\ HutOff
  /\ RestOff
  /\ paragraphs = <<>>
  /\ validLog = <<>>
  /\ runs = 0

rateFrame ==
  <<wikiTerms, cache, stored, currentArticle, isProcessing, shouldStop,
    processedCount, totalCount, now, paragraphs, page, registry, pc, queue,
    toCheck, batchStart, pending, requests, reads, validLog, runs, CONFIG, savedConfig,
    hutVars, restVars>>

\* fetchRelatedArticles or checkPagesExist asks the limiter
RateCall ==
  /\ CountRequest
  /\ sinceReset' = IF requestTimer THEN sinceReset ELSE 0
  /\ admitted' = IF canMakeRequest THEN Append(admitted, 0) ELSE admitted
  /\ UNCHANGED rateFrame

\* retryWait ms pass; the timer fires before time moves past its period
RateTick ==
  /\ ~(requestTimer /\ sinceReset = rateWindow)
  /\ sinceReset' = IF requestTimer THEN sinceReset + retryWait ELSE sinceReset
  /\ admitted' = Aged(admitted, retryWait)
  /\ UNCHANGED <<requestCount, requestTimer>>
  /\ UNCHANGED rateFrame

RateTimerFires ==
  /\ requestTimer
  /\ sinceReset = rateWindow
  /\ ResetCount
  /\ sinceReset' = 0
  /\ UNCHANGED <<requestTimer, admitted>>
  /\ UNCHANGED rateFrame

RateNext == RateCall \/ RateTick \/ RateTimerFires

SpecRate == RateInit /\ [][RateNext]_vars

\* C4: in any window of rateWindow ms the limiter admits at most CONFIG.rateLimit
\* calls.
RollingWindowLimit == Len(admitted) <= RateLimit


(***************************************************************************)
(* findCandidateWords                                                      *)
(***************************************************************************)
\* the characters of s at the offsets of keep, in order
KeepAt(s, keep) ==
  LET at == SelectSeq([i \in 1..Len(s) |-> i], LAMBDA i : i \in keep)
  IN <<>> \o [k \in 1..Len(at) |-> s[at[k]]]

\* text.replace(/\[\d+\]/g, ''): a character goes when it lies between a "[" and
\* a "]" that enclose one digit or more and nothing else
StripCitations(s) ==
  KeepAt(s, {i \in 1..Len(s) :
               ~\E a \in 1..i :
                   /\ s[a] = "["
                   /\ \E b \in i..Len(s) :
                        /\ s[b] = "]" /\ b >= a + 2
                        /\ \A k \in (a + 1)..(b - 1) : s[k] \in DigitChars})

\* text.replace(/\([^)]*\)/g, ''): a match runs from a "(" to the first ")" after
\* it, so a character goes when a "(" before it (or itself) has no ")" in
\* between and some ")" follows
StripParens(s) ==
  KeepAt(s, {i \in 1..Len(s) :
               ~\E a \in 1..i :
                   /\ s[a] = "("
                   /\ \A k \in (a + 1)..(i - 1) : s[k] # ")"
                   /\ \E b \in i..Len(s) : b > a /\ s[b] = ")"})

\* the offset at which the longest run of characters of set that starts at p ends
RunEnd(text, p, set) ==
  MinOf({q \in p..Len(text) : q = Len(text) \/ text[q + 1] \notin set})

\* [A-Z][a-z]{minLower,} followed by n - 1 times \s+[A-Z][a-z]+ and then \b,
\* matched at offset p: the offset where the match ends, or -1
RECURSIVE PhraseEnd(_, _, _, _)
PhraseEnd(text, p, n, minLower) ==
  IF p >= Len(text) \/ text[p + 1] \notin UpperSet THEN -1
  ELSE LET e == RunEnd(text, p + 1, LowerSet)
       IN IF e - (p + 1) < minLower THEN -1
          ELSE IF n = 1 THEN (IF WordBoundary(text, e) THEN e ELSE -1)
          ELSE LET sp == RunEnd(text, e, {" ", "\n"})
               IN IF sp = e THEN -1 ELSE PhraseEnd(text, sp, n - 1, 1)

\* \b[A-Z]{2,}\b matched at offset p
AcronymEnd(text, p) ==
  LET e == RunEnd(text, p, UpperSet)
  IN IF e - p >= 2 /\ WordBoundary(text, e) THEN e ELSE -1

\* the four patterns of findCandidateWords, numbered in the order it applies them
PatternEnd(text, p, pattern) ==
  IF ~WordBoundary(text, p) THEN -1
  ELSE IF pattern = 1 THEN PhraseEnd(text, p, 1, 3)
  ELSE IF pattern = 2 THEN PhraseEnd(text, p, 2, 1)
  ELSE IF pattern = 3 THEN PhraseEnd(text, p, 3, 1)
  ELSE AcronymEnd(text, p)

\* text.match(pattern) with the g flag, from offset from on
RECURSIVE MatchAll(_, _, _)
MatchAll(text, from, pattern) ==
  LET found == {p \in from..Len(text) : PatternEnd(text, p, pattern) # -1}
  IN IF found = {} THEN <<>>
     ELSE LET p == MinOf(found)
              e == PatternEnd(text, p, pattern)
          IN <<substring(text, p, e)>> \o MatchAll(text, e, pattern)

findCandidateWords(text, article) ==
  LET t == StripParens(StripCitations(text))
      kept(pattern) ==
        SelectSeq(MatchAll(t, 0, pattern),
                  LAMBDA w : ~shouldExcludeIn(w, article) /\ (pattern = 4 => Len(w) <= 6))
  IN AddAll(AddAll(AddAll(AddAll(<<>>, kept(1)), kept(2)), kept(3)), kept(4))


(***************************************************************************)
(* init, processAllParagraphs, highlightParagraph, checkPagesExist         *)
(***************************************************************************)
\* CONFIG.minWordLength
minWordLength == 4

\* CONFIG.maxWordsPerParagraph and CONFIG.batchSize, settings: kept small
MaxWordsPerParagraph == 3

BatchSize == 1

\* processAllParagraphs: p.textContent.trim().length > 50
minParagraphLength == 50

\* CONFIG.cacheExpiry: 7 days
cacheExpiry == 7 * 24 * 60 * 60 * 1000

\* String.prototype.trim
RECURSIVE Trim(_)
Trim(s) ==
  IF s # <<>> /\ IsSpace(s[1]) THEN Trim(Tail(s))
  ELSE IF s # <<>> /\ IsSpace(s[Len(s)]) THEN Trim(SubSeq(s, 1, Len(s) - 1))
  ELSE s

\* paragraph.textContent
textContent(p) == Flatten([i \in 1..Len(p.nodes) |-> p.nodes[i].text])

\* wikiTerms.set and cache.exists[lower] = { term, timestamp } for each title
RECURSIVE SetAll(_, _)
SetAll(m, titles) ==
  IF titles = <<>> THEN m
  ELSE SetAll(MapSet(m, toLowerCase(Head(titles)), Head(titles)), Tail(titles))

PutAll(exists, titles, t) ==
  [k \in DOMAIN exists \cup {toLowerCase(titles[i]) : i \in 1..Len(titles)} |->
     IF \E i \in 1..Len(titles) : toLowerCase(titles[i]) = k
     THEN [term |-> titles[CHOOSE i \in 1..Len(titles) :
                             /\ toLowerCase(titles[i]) = k
                             /\ \A j \in (i + 1)..Len(titles) : toLowerCase(titles[j]) # k],
           timestamp |-> t]
     ELSE exists[k]]

\* the title the registry reports for a requested title: first letter in upper
\* case, runs of white space as one space
RECURSIVE NormalizeTitle(_)
NormalizeTitle(t) ==
  IF t = <<>> THEN <<>>
  ELSE IF Len(t) >= 2 /\ IsSpace(t[Len(t)]) /\ IsSpace(t[Len(t) - 1])
       THEN NormalizeTitle(SubSeq(t, 1, Len(t) - 1))
  ELSE IF Len(t) = 1
       THEN <<IF t[1] \in LowerSet
              THEN UpperChars[CHOOSE i \in 1..26 : LowerChars[i] = t[1]] ELSE t[1]>>
  ELSE NormalizeTitle(SubSeq(t, 1, Len(t) - 1))
       \o <<IF IsSpace(t[Len(t)]) THEN " " ELSE t[Len(t)]>>

\* cleanCache followed by its saveCache
cleanCache ==
  LET young == {k \in DOMAIN cache.exists : now - cache.exists[k].timestamp < cacheExpiry}
      newCache == [exists |-> [k \in young |-> cache.exists[k]],
                   notExists |-> <<>>,
                   timestamp |-> now]
  IN /\ cache' = newCache
     /\ stored' = Saved(newCache)

\* where highlightParagraph goes on after the batch that starts at i
AfterBatch(i) == IF i + BatchSize < Len(toCheck) THEN "delay" ELSE "finish"

\* a refused checkPagesExist that returns at once instead of waiting to ask again
RefusedDropping(i) == AfterBatch(i)

\* a refused checkPagesExist waits retryWait ms and calls itself
Refused(i) == "rateWait"

\* checkPagesExist(terms) up to its first await, called for the batch that starts at i
checkPagesExist(terms, i) ==
  LET lower(w) == toLowerCase(w)
      cached == SelectSeq(terms, LAMBDA w : lower(w) \in DOMAIN cache.exists)
      known == SelectSeq(terms, LAMBDA w : /\ lower(w) \notin DOMAIN cache.exists
                                           /\ lower(w) \in DOMAIN cache.notExists)
      unknown == SelectSeq(terms, LAMBDA w : /\ lower(w) \notin DOMAIN cache.exists
                                             /\ lower(w) \notin DOMAIN cache.notExists)
  IN /\ wikiTerms' = SetAll(wikiTerms, [j \in 1..Len(cached) |-> cache.exists[lower(cached[j])].term])
     /\ reads' = {now - cache.exists[lower(cached[j])].timestamp : j \in 1..Len(cached)}
                 \cup {now - cache.notExists[lower(known[j])] : j \in 1..Len(known)}
     /\ IF unknown = <<>>
        THEN /\ pc' = AfterBatch(i)
             /\ UNCHANGED <<requestCount, requestTimer, pending, requests>>
        ELSE /\ CountRequest
             /\ pending' = unknown
             /\ pc' = IF canMakeRequest THEN "awaitFetch" ELSE Refused(i)
             /\ requests' = IF canMakeRequest THEN Append(requests, unknown) ELSE requests

\* the points where the chain of awaits waits for a timer or the network, so that
\* timer callbacks and event handlers can run
YieldPcs == {"awaitRelated", "awaitFetch", "rateWait", "delay", "hung", "done", "crashed"}

\* what the script does not touch: the clock of the limiter study and the other script
apart == <<sinceReset, admitted, CONFIG, savedConfig, hutVars, restVars>>

\* init() up to the end of extractExistingLinks: the test of CONFIG.enabled,
\* getArticleTitle, loadConfig, loadCache, extractExistingLinks.  The first
\* write to cache.exists throws when loadCache has left no cache object
InitScript ==
  /\ pc = "start"
  /\ IF ~CONFIG.enabled
     THEN /\ pc' = "disabled"
          /\ UNCHANGED <<CONFIG, currentArticle, stored, cache, wikiTerms>>
     ELSE /\ currentArticle' = Trim(page.heading)
          /\ CONFIG' = IF savedConfig.kind = "config"
                       THEN [enabled |-> savedConfig.enabled] ELSE CONFIG
          /\ LET expired == stored.kind = "cache" /\ now - stored.value.timestamp > cacheExpiry
                 loaded == IF stored.kind \in {"none", "text"} THEN cache
                           ELSE IF stored.kind = "json" THEN NotACache
                           ELSE IF expired THEN EmptyCache(now) ELSE stored.value
             IN /\ stored' = IF expired THEN Saved(EmptyCache(now)) ELSE stored
                /\ IF Usable(loaded)
                   THEN /\ cache' = [loaded EXCEPT !.exists = PutAll(@, page.links, now)]
                        /\ wikiTerms' = SetAll(wikiTerms, page.links)
                        /\ pc' = "fetchRelated"
                   ELSE /\ cache' = loaded
                        /\ wikiTerms' = SetAll(wikiTerms, IF page.links = <<>> THEN <<>> ELSE <<page.links[1]>>)
                        /\ pc' = IF page.links = <<>> THEN "fetchRelated" ELSE "crashed"
  /\ UNCHANGED <<isProcessing, shouldStop, processedCount, totalCount, requestCount,
                 requestTimer, now, paragraphs, page, registry, queue, toCheck,
                 batchStart, pending, requests, reads, validLog, runs, sinceReset,
                 admitted, savedConfig, hutVars, restVars>>

\* fetchRelatedArticles up to its fetch
FetchRelatedStart ==
  /\ pc = "fetchRelated"
  /\ CountRequest
  /\ pc' = IF canMakeRequest THEN "awaitRelated" ELSE "process"
  /\ UNCHANGED <<wikiTerms, cache, stored, currentArticle, isProcessing, shouldStop,
                 processedCount, totalCount, now, paragraphs, page, registry, queue,
                 toCheck, batchStart, pending, requests, reads, validLog, runs, apart>>

\* fetchRelatedArticles after its fetch: the links of the article, or an error
FetchRelatedDone ==
  /\ pc = "awaitRelated"
  /\ \E ok \in BOOLEAN :
       LET titles == IF ok THEN SelectSeq(page.links, LAMBDA t : ~includes(t, <<":">>))
                     ELSE <<>>
       IN IF Usable(cache)
          THEN /\ wikiTerms' = SetAll(wikiTerms, titles)
               /\ cache' = [cache EXCEPT !.exists = PutAll(@, titles, now)]
          ELSE /\ wikiTerms' = SetAll(wikiTerms, IF titles = <<>> THEN <<>> ELSE <<titles[1]>>)
               /\ UNCHANGED cache
  /\ pc' = "process"
  /\ UNCHANGED <<stored, currentArticle, isProcessing, shouldStop, processedCount,
                 totalCount, requestCount, requestTimer, now, paragraphs, page,
                 registry, queue, toCheck, batchStart, pending, requests, reads,
                 validLog, runs, apart>>

\* processAllParagraphs up to its loops
ProcessStart ==
  /\ pc = "process"
  /\ ~isProcessing
  /\ isProcessing' = TRUE
  /\ shouldStop' = FALSE
  /\ processedCount' = 0
  /\ LET valid(i) == /\ Len(Trim(textContent(paragraphs[i]))) > minParagraphLength
                     /\ ~paragraphs[i].highlighted
         all == [i \in 1..Len(paragraphs) |-> i]
         inView == SelectSeq(all, LAMBDA i : valid(i) /\ paragraphs[i].inViewport)
         notInView == SelectSeq(all, LAMBDA i : valid(i) /\ ~paragraphs[i].inViewport)
     IN /\ totalCount' = Len(inView) + Len(notInView)
        /\ queue' = inView \o notInView
  /\ pc' = "loop"
  /\ UNCHANGED <<wikiTerms, cache, stored, currentArticle, requestCount, requestTimer,
                 now, paragraphs, page, registry, toCheck, batchStart, pending,
                 requests, reads, validLog, runs, apart>>


\* one turn of the loops of processAllParagraphs: the end of the function and
\* cleanCache, or highlightParagraph up to its batch loop
LoopStep ==
  /\ pc = "loop"
  /\ IF queue = <<>> \/ shouldStop
     THEN /\ isProcessing' = FALSE
          /\ IF Usable(cache) THEN cleanCache /\ pc' = "done"
             ELSE pc' = "crashed" /\ UNCHANGED <<cache, stored>>
          /\ UNCHANGED <<paragraphs, queue, toCheck, batchStart>>
     ELSE LET p == paragraphs[Head(queue)]
              kept == SelectSeq(findCandidateWords(textContent(p), currentArticle),
                        LAMBDA w : /\ Len(toLowerCase(w)) >= minWordLength
                                   /\ ~MapHas(wikiTerms, toLowerCase(w))
                                   /\ ~shouldExclude(w))
          IN /\ UNCHANGED <<isProcessing, cache, stored>>
             /\ IF p.highlighted \/ ~p.inViewport
                THEN /\ queue' = Tail(queue)
                     /\ pc' = "loop"
                     /\ UNCHANGED <<paragraphs, toCheck, batchStart>>
                ELSE IF p.inTable
                THEN /\ paragraphs' = [paragraphs EXCEPT ![Head(queue)].highlighted = TRUE]
                     /\ queue' = Tail(queue)
                     /\ pc' = "loop"
                     /\ UNCHANGED <<toCheck, batchStart>>
                ELSE /\ toCheck' = SubSeq(kept, 1, IF Len(kept) < MaxWordsPerParagraph
                                                   THEN Len(kept) ELSE MaxWordsPerParagraph)
                     /\ batchStart' = 0
                     /\ pc' = IF kept = <<>> THEN "finish" ELSE "batch"
                     /\ UNCHANGED <<paragraphs, queue>>
  /\ UNCHANGED <<wikiTerms, currentArticle, shouldStop, processedCount, totalCount,
                 requestCount, requestTimer, now, page, registry, pending, requests,
                 reads, validLog, runs, apart>>

\* one turn of the batch loop of highlightParagraph, up to the await inside
\* checkPagesExist
BatchStep ==
  /\ pc \in {"batch", "delay"}
  /\ LET i == IF pc = "delay" THEN batchStart + BatchSize ELSE batchStart
         last == IF i + BatchSize < Len(toCheck) THEN i + BatchSize ELSE Len(toCheck)
     IN /\ batchStart' = i
        /\ IF shouldStop
           THEN /\ pc' = "finish"
                /\ UNCHANGED <<wikiTerms, requestCount, requestTimer, pending, requests, reads>>
           ELSE IF Usable(cache) THEN checkPagesExist(SubSeq(toCheck, i + 1, last), i)
           ELSE /\ pc' = "crashed"
                /\ UNCHANGED <<wikiTerms, requestCount, requestTimer, pending, requests, reads>>
  /\ UNCHANGED <<cache, stored, currentArticle, isProcessing, shouldStop, processedCount,
                 totalCount, now, paragraphs, page, registry, queue, toCheck,
                 validLog, runs, apart>>

\* the 5 s wait of a refused checkPagesExist is over: checkPagesExist(toCheck)
RetryWake ==
  /\ pc = "rateWait"
  /\ checkPagesExist(pending, batchStart)
  /\ UNCHANGED <<cache, stored, currentArticle, isProcessing, shouldStop, processedCount,
                 totalCount, now, paragraphs, page, registry, queue, toCheck, batchStart,
                 validLog, runs, apart>>

\* the registry answers: a page with a pageid for every title that has one
FetchOk ==
  /\ pc = "awaitFetch"
  /\ LET pages == AddAll(<<>>, [j \in 1..Len(pending) |-> NormalizeTitle(pending[j])])
         existing == SelectSeq(pages, LAMBDA t : t \in registry)
         missing == SelectSeq(pages, LAMBDA t : t \notin registry)
         newCache ==
           [cache EXCEPT
              !.exists = PutAll(@, existing, now),
              !.notExists = [k \in DOMAIN @ \cup {toLowerCase(missing[j]) : j \in 1..Len(missing)} |->
                               IF \E j \in 1..Len(missing) : toLowerCase(missing[j]) = k
                               THEN now ELSE @[k]]]
     IN /\ wikiTerms' = SetAll(wikiTerms, existing)
        /\ cache' = newCache
        /\ stored' = Saved(newCache)
  /\ pc' = AfterBatch(batchStart)
  /\ pending' = <<>>
  /\ UNCHANGED <<currentArticle, isProcessing, shouldStop, processedCount, totalCount,
                 requestCount, requestTimer, now, paragraphs, page, registry, queue,
                 toCheck, batchStart, requests, reads, validLog, runs, apart>>

\* fetch rejects or the answer has no query.pages: the catch returns []
FetchFail ==
  /\ pc = "awaitFetch"
  /\ pc' = AfterBatch(batchStart)
  /\ pending' = <<>>
  /\ UNCHANGED <<wikiTerms, cache, stored, currentArticle, isProcessing, shouldStop,
                 processedCount, totalCount, requestCount, requestTimer, now,
                 paragraphs, page, registry, queue, toCheck, batchStart, requests,
                 reads, validLog, runs, apart>>

\* the registry never answers: fetch has no timeout, its promise stays pending
FetchNeverAnswers ==
  /\ pc = "awaitFetch"
  /\ pc' = "hung"
  /\ UNCHANGED <<wikiTerms, cache, stored, currentArticle, isProcessing, shouldStop,
                 processedCount, totalCount, requestCount, requestTimer, now,
                 paragraphs, page, registry, queue, toCheck, batchStart, pending,
                 requests, reads, validLog, runs, apart>>

\* highlightParagraph after its batch loop
FinishParagraph ==
  /\ pc = "finish"
  /\ LET nodes == paragraphs[Head(queue)].nodes
     IN IF shouldStop
        THEN /\ paragraphs' = [paragraphs EXCEPT ![Head(queue)].highlighted = TRUE]
             /\ UNCHANGED <<validLog, runs>>
        ELSE /\ paragraphs' = [paragraphs EXCEPT
                                 ![Head(queue)].highlighted = TRUE,
                                 ![Head(queue)].nodes =
                                    highlightInParagraph(nodes, wikiTerms, currentArticle)]
             /\ validLog' = MatchLog(nodes, wikiTerms, currentArticle)
             /\ runs' = runs + 1
  /\ processedCount' = processedCount + 1
  /\ queue' = Tail(queue)
  /\ pc' = "loop"
  /\ UNCHANGED <<wikiTerms, cache, stored, currentArticle, isProcessing, shouldStop,
                 totalCount, requestCount, requestTimer, now, page, registry, toCheck,
                 batchStart, pending, requests, reads, apart>>

\* the beforeunload handler
Stop ==
  /\ pc \in YieldPcs
  /\ shouldStop' = TRUE
  /\ stored' = Saved(cache)
  /\ UNCHANGED <<wikiTerms, cache, currentArticle, isProcessing, processedCount,
                 totalCount, requestCount, requestTimer, now, paragraphs, page,
                 registry, pc, queue, toCheck, batchStart, pending, requests, reads,
                 validLog, runs, apart>>

\* the setInterval callback of canMakeRequest
TimerFires ==
  /\ pc \in YieldPcs
  /\ requestTimer
  /\ ResetCount
  /\ UNCHANGED <<wikiTerms, cache, stored, currentArticle, isProcessing, shouldStop,
                 processedCount, totalCount, requestTimer, now, paragraphs, page,
                 registry, pc, queue, toCheck, batchStart, pending, requests, reads,
                 validLog, runs, apart>>


(***************************************************************************)
(* The pages the script is run on                                          *)
(***************************************************************************)
MaxParaWords == 2

Filler ==
  <<"t","h","e"," ","q","u","i","c","k"," ","b","r","o","w","n"," ","f","o","x"," ",
    "j","u","m","p","s"," ","o","v","e","r"," ","t","h","e"," ","l","a","z","y"," ",
    "d","o","g"," ","a","n","d"," ","s","e","e","s"," ">>

Paris == <<"P","a","r","i","s">>

York == <<"Y","o","r","k">>

June == <<"J","u","n","e">>

NewYork == <<"N","e","w"," ","Y","o","r","k">>

PageWords == {Paris, York, June, <<"N","e","w">>}

\* a heading, the titles of the links, a paragraph of over 50 characters that ends
\* with words of PageWords, and a second paragraph
Pages ==
  {[heading |-> h, links |-> l,
    paragraphs |-> <<Paragraph(<<TextNode(Filler \o t, "P", {})>>),
                     Paragraph(<<TextNode(Filler \o York, "P", {})>>)>>] :
     h \in {NewYork, Paris}, l \in {<<>>, <<June>>},
     t \in TextsOf(PageWords, MaxParaWords)}

Registries == {{Paris}, {Paris, York, NewYork}}

PipeInit ==
  /\ now = 1
  /\ Declared
  /\ stored = NothingStored
  /\ savedConfig = NothingStored
  /\ page \in Pages
  /\ paragraphs = page.paragraphs
  /\ registry \in Registries
  /\ pc = "start"
  /\ queue = <<>>
  /\ toCheck = <<>>
  /\ batchStart = 0
  /\ pending = <<>>
  /\ requests = <<>>
  /\ reads = {}
  /\ validLog = <<>>
  /\ runs = 0
  /\ sinceReset = 0
  /\ admitted = <<>>
  /\ HutOff
  /\ RestOff

PipeNext ==
  \/ InitScript
  \/ FetchRelatedStart
  \/ FetchRelatedDone
  \/ ProcessStart
  \/ LoopStep
  \/ BatchStep
  \/ RetryWake
  \/ FetchOk
  \/ FetchFail
  \/ FetchNeverAnswers
  \/ FinishParagraph
  \/ Stop
  \/ TimerFires

SpecPipe == PipeInit /\ [][PipeNext]_vars


\* the timers the event loop is sure to fire: the setTimeout of a refused
\* checkPagesExist and the setInterval of canMakeRequest; the network is not
FairSpecPipe ==
  /\ PipeInit
  /\ [][PipeNext]_vars
  /\ WF_vars(RetryWake)
  /\ WF_vars(TimerFires)

\* every title sent to the registry by checkPagesExist so far
Requested == UNION {{requests[i][j] : j \in 1..Len(requests[i])} : i \in 1..Len(requests)}

\* C5: no title sent to the registry contains the article title or is contained
\* in it, compared in lower case.
SelfExcludedBeforeVerification ==
  \A t \in Requested :
    /\ ~includes(toLowerCase(currentArticle), toLowerCase(t))
    /\ ~includes(toLowerCase(t), toLowerCase(currentArticle))

\* C6: a batch whose call never answers does not keep the later batches of the
\* paragraph from being issued.
SilentBatchDoesNotBlock ==
  (pc = "hung" /\ batchStart + BatchSize < Len(toCheck)) ~> (pc # "hung")

\* C9: a word of the stoplist is never sent to the registry and never decorated.
StoplistNeverVerified ==
  /\ \A t \in Requested : ~InStoplist(toLowerCase(t))
  /\ \A i \in 1..Len(paragraphs) :
       \A k \in 1..Len(paragraphs[i].nodes) :
         "HL" \in paragraphs[i].nodes[k].ancestors
           => ~InStoplist(toLowerCase(paragraphs[i].nodes[k].text))

\* a stoplisted word stands in an annotated paragraph and is a key of wikiTerms,
\* and the registry has been asked about other words of that paragraph
StoplistWitness ==
  /\ paragraphs # <<>>
  /\ paragraphs[1].highlighted
  /\ runs >= 1
  /\ includes(textContent(paragraphs[1]), June)
  /\ MapHas(wikiTerms, toLowerCase(June))
  /\ requests # <<>>

MaxSteps == 2

\* the time between two looks at an idle page: 4 days
TimeStep == 4 * 24 * 60 * 60 * 1000

\* Date.now() moves on while the finished script sits in an open page
DayPasses ==
  /\ pc = "done"
  /\ now < 1 + MaxSteps * TimeStep
  /\ now' = now + TimeStep
  /\ UNCHANGED <<wikiTerms, cache, stored, currentArticle, isProcessing, shouldStop,
                 processedCount, totalCount, requestCount, requestTimer, paragraphs,
                 page, registry, pc, queue, toCheck, batchStart, pending, requests,
                 reads, validLog, runs, apart>>

\* the page is left and loaded again: the beforeunload handler saves the cache,
\* then the script starts from its declarations on the document as served
Reload ==
  /\ pc \in YieldPcs
  /\ stored' = Saved(cache)
  /\ wikiTerms' = <<>>
  /\ cache' = EmptyCache(now)
  /\ currentArticle' = <<>>
  /\ isProcessing' = FALSE
  /\ shouldStop' = FALSE
  /\ processedCount' = 0
  /\ totalCount' = 0
  /\ requestCount' = 0
  /\ requestTimer' = FALSE
  /\ paragraphs' = page.paragraphs
  /\ pc' = "start"
  /\ queue' = <<>>
  /\ toCheck' = <<>>
  /\ batchStart' = 0
  /\ pending' = <<>>
  /\ requests' = <<>>
  /\ reads' = {}
  /\ validLog' = <<>>
  /\ runs' = 0
  /\ CONFIG' = DEFAULT_CONFIG
  /\ UNCHANGED <<now, page, registry, sinceReset, admitted, savedConfig, hutVars, restVars>>

CacheInit ==
  /\ PipeInit
  /\ page.heading = NewYork
  /\ page.links = <<>>
  /\ registry = {Paris, York, NewYork}

CacheNext == PipeNext \/ DayPasses \/ Reload

SpecCache == CacheInit /\ [][CacheNext]_vars

\* C3: every record that a lookup of checkPagesExist uses is younger than
\* cacheExpiry at the time of the lookup.
FreshReads == \A age \in reads : age < cacheExpiry


(***************************************************************************)
(* highlight-unlinked-terms: candidates, registry answers, highlight once  *)
(***************************************************************************)
\* config.apiBatchSize, kept small
ApiBatchSize == 2

\* most phrases of a text node, joined by ", "
MaxPhrases == 2

\* termRegex at offset p: a run of 4 letters or more, then up to two times one
\* white-space character and a run of 2 letters or more, as many as there are;
\* the offset where the match ends, or -1 (the texts hold letters, spaces, commas)
TermRegexEnd(text, p) ==
  LET letters == UpperSet \cup LowerSet
      more(e) == IF e + 1 < Len(text) /\ IsSpace(text[e + 1])
                    /\ text[e + 2] \in letters
                    /\ RunEnd(text, e + 1, letters) - (e + 1) >= 2
                 THEN RunEnd(text, e + 1, letters) ELSE e
      e1 == RunEnd(text, p, letters)
  IN IF p < Len(text) /\ WordBoundary(text, p) /\ text[p + 1] \in letters /\ e1 - p >= 4
     THEN more(more(e1)) ELSE -1

\* node.textContent.match(termRegex), from offset from on
RECURSIVE TermMatches(_, _)
TermMatches(text, from) ==
  LET found == {p \in from..Len(text) : TermRegexEnd(text, p) # -1}
  IN IF found = {} THEN <<>>
     ELSE <<Trim(substring(text, MinOf(found), TermRegexEnd(text, MinOf(found))))>>
          \o TermMatches(text, TermRegexEnd(text, MinOf(found)))

collectTextNodes(nodes) ==
  SelectSeq(nodes, LAMBDA n : /\ Trim(n.text) # <<>>
                              /\ n.tag \notin {"A", "SUP", "SUB", "CITE", "MARK"})

\* wordsToCheck.slice(i, i + config.apiBatchSize) for the k-th chunk
Chunk(k) ==
  SubSeq(candidateWords, (k - 1) * ApiBatchSize + 1,
         IF k * ApiBatchSize < Len(candidateWords)
         THEN k * ApiBatchSize ELSE Len(candidateWords))

\* the wiki: articles, redirects and a disambiguation page
City == <<"C","i","t","y">>

Jorvik == <<"J","o","r","v","i","k">>

Eboracum == <<"E","b","o","r","a","c","u","m">>

YorkCity == York \o <<" ">> \o City

CityHall == City \o <<" ", "H", "a", "l", "l">>

YorkCityHall == York \o <<" ">> \o CityHall

Articles == {York, YorkCity, CityHall}

Disambiguations == {City}

RedirectTo == [t \in {Jorvik, Eboracum} |-> York]

\* the page a requested title ends at: normalized, then through its redirect
Resolve(title) ==
  IF NormalizeTitle(title) \in DOMAIN RedirectTo
  THEN RedirectTo[NormalizeTitle(title)] ELSE NormalizeTitle(title)

\* the values the wiki may store for the disambiguation page property
PropValues == {"", "1"}

\* result.query of action=query with redirects=1 and formatversion=2 for titles:
\* the redirects followed, in the order of the request, and one page per
\* distinct target, in the order pages gives them; a disambiguation page carries
\* pageprops.disambiguation with the value the wiki stores for it
Answer(titles, pages, value) ==
  [redirects |->
     AddAll(<<>>, [i \in 1..Len(SelectSeq(titles, LAMBDA t : NormalizeTitle(t) \in DOMAIN RedirectTo)) |->
        LET from == NormalizeTitle(SelectSeq(titles,
                      LAMBDA t : NormalizeTitle(t) \in DOMAIN RedirectTo)[i])
        IN [from |-> from, to |-> RedirectTo[from]]]),
   pages |->
     [i \in 1..Len(pages) |->
        [title |-> pages[i],
         missing |-> pages[i] \notin Articles \cup Disambiguations,
         pageprops |-> IF pages[i] \in Disambiguations
                       THEN {[name |-> "disambiguation", value |-> value]} ELSE {}]]]

\* p.pageprops?.disambiguation read as a condition: undefined and '' are falsy
IsDisambiguation(page_) ==
  \E prop \in page_.pageprops : prop.name = "disambiguation" /\ prop.value # ""

\* the orders in which the registry may list the pages of titles
PageOrders(titles) ==
  LET targets == {Resolve(titles[i]) : i \in 1..Len(titles)}
  IN {f \in [1..Cardinality(targets) -> targets] :
        \A i, j \in 1..Cardinality(targets) : f[i] = f[j] => i = j}

\* the then-callback of one chunk: result.query.pages.forEach
RECURSIVE addPages(_, _, _)
addPages(final, query, i) ==
  IF i > Len(query.pages) THEN final
  ELSE LET page_ == query.pages[i]
           found == SelectSeq(query.redirects, LAMBDA r : r.to = page_.title)
       IN addPages(IF ~page_.missing /\ ~IsDisambiguation(page_)
                   THEN AddOnce(final, IF found # <<>> THEN found[1].from ELSE page_.title)
                   ELSE final,
                   query, i + 1)

\* highlightRegex.exec from offset from: the leftmost offset where a term of the
\* alternation matches between two \b, and the first such term in the
\* alternation's order (terms hold no character the escaping or the RegExp changes)
HighlightExec(text, terms, from) ==
  LET at(p) == {j \in 1..Len(terms) : TermAt(text, p, terms[j], FALSE)}
      found == {p \in from..Len(text) : at(p) # {}}
  IN IF found = {} THEN [index |-> -1, term |-> <<>>]
     ELSE [index |-> MinOf(found), term |-> terms[MinOf(at(MinOf(found)))]]

\* the while loop over one text node: the marks it adds
RECURSIVE markNode(_, _, _, _, _)
markNode(n, text, terms, from, made) ==
  LET match == HighlightExec(text, terms, from)
  IN IF match.index = -1 THEN made
     ELSE markNode(n, text, terms, match.index + Len(match.term),
            IF \E m \in made : m.term = match.term THEN made
            ELSE made \cup {[node |-> n, start |-> match.index, term |-> match.term]})

\* textNodesInParagraphs.forEach of the Promise.all callback; highlightedOnce is
\* the set of the terms of the marks made so far
RECURSIVE markNodes(_, _, _, _)
markNodes(nodes, terms, n, made) ==
  IF n > Len(nodes) THEN made
  ELSE markNodes(nodes, terms, n + 1,
         IF nodes[n].tag \in {"A", "SUP", "CITE", "MARK"} THEN made
         ELSE markNode(n, nodes[n].text, terms, 0, made))

HutPhrases == {York, City, Jorvik, Eboracum, YorkCity, CityHall, YorkCityHall}

\* one to n phrases joined by ", "
RECURSIVE PhraseTexts(_)
PhraseTexts(n) ==
  IF n = 1 THEN HutPhrases
  ELSE PhraseTexts(n - 1)
       \cup {t \o <<",", " ">> \o w : t \in PhraseTexts(n - 1), w \in HutPhrases}

HutInit ==
  /\ Idle
  /\ Declared
  /\ paragraphs = <<>>
  /\ validLog = <<>>
  /\ runs = 0
  /\ \E t \in PhraseTexts(MaxPhrases) :
       \E rest \in {<<>>} \cup {<<[text |-> u, tag |-> "P"]>> : u \in PhraseTexts(MaxPhrases)}
                   \cup {<<[text |-> u, tag |-> "A"]>> : u \in HutPhrases} :
         content = <<[text |-> t, tag |-> "P"]>> \o rest
  /\ textNodesInParagraphs = <<>>
  /\ candidateWords = <<>>
  /\ allApiPromises = <<>>
  /\ finalTermsToHighlight = <<>>
  /\ marks = {}
  /\ hutPc = "start"
  /\ RestOff

\* the hook callback up to the end of its synchronous part
HutScan ==
  /\ hutPc = "start"
  /\ LET nodes == collectTextNodes(content)
         words == AddAll(<<>>, Flatten([i \in 1..Len(nodes) |-> TermMatches(nodes[i].text, 0)]))
     IN /\ textNodesInParagraphs' = nodes
        /\ candidateWords' = words
        /\ allApiPromises' = [k \in 1..((Len(words) + ApiBatchSize - 1) \div ApiBatchSize) |-> "pending"]
        /\ hutPc' = IF words = <<>> THEN "returned" ELSE "waiting"
  /\ UNCHANGED <<content, finalTermsToHighlight, marks, ts14Vars, restVars>>

\* the answer to one chunk arrives: with its pages, or without query.pages
HutAnswer ==
  /\ hutPc \in {"waiting", "failed"}
  /\ \E k \in 1..Len(allApiPromises) :
       /\ allApiPromises[k] = "pending"
       /\ \/ \E pages \in PageOrders(Chunk(k)), value \in PropValues :
               /\ finalTermsToHighlight' =
                    addPages(finalTermsToHighlight, Answer(Chunk(k), pages, value), 1)
               /\ allApiPromises' = [allApiPromises EXCEPT ![k] = "ok"]
          \/ /\ allApiPromises' = [allApiPromises EXCEPT ![k] = "nopages"]
             /\ UNCHANGED finalTermsToHighlight
  /\ UNCHANGED <<content, textNodesInParagraphs, candidateWords, marks, hutPc, ts14Vars, restVars>>

\* the request of one chunk fails: Promise.all rejects and the catch logs it
HutReject ==
  /\ hutPc \in {"waiting", "failed"}
  /\ \E k \in 1..Len(allApiPromises) :
       /\ allApiPromises[k] = "pending"
       /\ allApiPromises' = [allApiPromises EXCEPT ![k] = "rejected"]
  /\ hutPc' = "failed"
  /\ UNCHANGED <<content, textNodesInParagraphs, candidateWords, finalTermsToHighlight,
                 marks, ts14Vars, restVars>>

\* the callback of Promise.all(allApiPromises)
HutHighlight ==
  /\ hutPc = "waiting"
  /\ \A k \in 1..Len(allApiPromises) : allApiPromises[k] \in {"ok", "nopages"}
  /\ marks' = markNodes(textNodesInParagraphs, finalTermsToHighlight, 1, {})
  /\ hutPc' = "done"
  /\ UNCHANGED <<content, textNodesInParagraphs, candidateWords, allApiPromises,
                 finalTermsToHighlight, ts14Vars, restVars>>

HutNext == HutScan \/ HutAnswer \/ HutReject \/ HutHighlight

SpecHut == HutInit /\ [][HutNext]_vars

\* C7: every title of an answered chunk that the registry resolves to an
\* article is in finalTermsToHighlight in the form it was requested in.
SurfaceFormKept ==
  \A k \in 1..Len(allApiPromises) :
    allApiPromises[k] = "ok" =>
      \A i \in 1..Len(Chunk(k)) :
        Resolve(Chunk(k)[i]) \in Articles =>
          \E j \in 1..Len(finalTermsToHighlight) : finalTermsToHighlight[j] = Chunk(k)[i]

\* C8: after the highlight pass no term has two marks, and a term with an
\* occurrence outside every occurrence of a longer approved term has its one
\* mark at the first such occurrence in document order.
MarkedOnceAtFirst ==
  hutPc = "done" =>
    \A j \in 1..Len(finalTermsToHighlight) :
      LET term == finalTermsToHighlight[j]
          text(n) == textNodesInParagraphs[n].text
          inLonger(n, p) ==
            \E i \in 1..Len(finalTermsToHighlight) :
              /\ Len(finalTermsToHighlight[i]) > Len(term)
              /\ \E q \in 0..p :
                   /\ TermAt(text(n), q, finalTermsToHighlight[i], FALSE)
                   /\ p + Len(term) <= q + Len(finalTermsToHighlight[i])
          free == UNION {{<<n, p>> : p \in {p \in 0..Len(text(n)) :
                                              /\ TermAt(text(n), p, term, FALSE)
                                              /\ ~inLonger(n, p)}} :
                           n \in 1..Len(textNodesInParagraphs)}
          first == CHOOSE o \in free :
                     \A u \in free : o[1] < u[1] \/ (o[1] = u[1] /\ o[2] <= u[2])
          mine == {m \in marks : m.term = term}
      IN /\ Cardinality(mine) <= 1
         /\ free # {} => mine = {[node |-> first[1], start |-> first[2], term |-> term]}

\* C11: no term to highlight is the title of a page that carries the
\* disambiguation property, nor a form that redirects to one.
DisambiguationNeverTarget ==
  \A j \in 1..Len(finalTermsToHighlight) :
    Resolve(finalTermsToHighlight[j]) \notin Disambiguations


(***************************************************************************)
(* The annotator on text nodes below links and citation markers, and on    *)
(* text that holds character references                                    *)
(***************************************************************************)
MaxMarkupWords == 2

\* one text node: directly in the paragraph, in a b inside an a, or in a sup; its
\* text may hold the characters "&lt;", and never a "<" before a letter
AnnotDomInit ==
  /\ cache = EmptyCache(0)
  /\ isProcessing = FALSE
  /\ shouldStop = FALSE
  /\ processedCount = 0
  /\ totalCount = 0
  /\ requestCount = 0
  /\ requestTimer = FALSE
  /\ CONFIG = DEFAULT_CONFIG
  /\ Idle
  /\ HutOff
  /\ RestOff
  /\ wikiTerms \in TermMapsOf(NodeTerms, MaxTerms)
  /\ currentArticle = <<>>
  /\ \E t \in TextsOf(NodeWords \cup {<<"&","l","t",";">>}, MaxMarkupWords),
        where \in {[tag |-> "P", above |-> {}], [tag |-> "B", above |-> {"A"}],
                   [tag |-> "SUP", above |-> {"SUP"}]} :
       paragraphs = <<Paragraph(<<TextNode(t, where.tag, where.above)>>)>>
  /\ validLog = <<>>
  /\ runs = 0

SpecAnnotDom == AnnotDomInit /\ [][AnnotNext]_vars

\* C12: a text node with a link, a citation marker or a decoration among its
\* ancestors is not replaced by highlightTextNode.
NoReplacementBelowLink ==
  [][\A i \in 1..Len(validLog') :
       paragraphs[1].nodes[i].ancestors \cap {"A", "SUP", "HL"} # {}
         => validLog'[i].valid = <<>>]_vars

(***************************************************************************)
(* Smart Highlight Advanced: main, filterByRelatedArticles, highlightTerms *)
(***************************************************************************)
\* CONFIG.MAX_HIGHLIGHTS
MAX_HIGHLIGHTS == 50

\* the capitalized words of the text, then its capitalized phrases, without
\* duplicates and without the common words
extractCandidateWords(nodes) ==
  LET allText == Flatten([i \in 1..Len(nodes) |-> nodes[i].text])
      \* \b[A-Z][a-z]+(?:\s+[A-Z][a-z]+)+\b at offset p: the group repeats greedily
      phraseEnd(p) ==
        LET ends == {PhraseEnd(allText, p, n, 1) : n \in 2..Len(allText)} \ {-1}
        IN IF ~WordBoundary(allText, p) \/ ends = {} THEN -1
           ELSE CHOOSE e \in ends : \A f \in ends : f <= e
      wordEnd(p) ==
        IF WordBoundary(allText, p) THEN PhraseEnd(allText, p, 1, 3) ELSE -1
      RECURSIVE match(_, _)
      match(from, phrase) ==
        LET end(p) == IF phrase THEN phraseEnd(p) ELSE wordEnd(p)
            found == {p \in from..Len(allText) : end(p) # -1}
        IN IF found = {} THEN <<>>
           ELSE LET p == MinOf(found)
                IN <<substring(allText, p, end(p))>> \o match(end(p), phrase)
      common == {<<"T","h","e">>, <<"T","h","i","s">>, <<"T","h","a","t">>,
                 <<"T","h","e","s","e">>, <<"T","h","o","s","e">>,
                 <<"T","h","e","r","e">>, <<"W","h","e","n">>,
                 <<"W","h","e","r","e">>, <<"W","h","i","c","h">>,
                 <<"W","h","a","t">>, <<"H","o","w","e","v","e","r">>,
                 <<"T","h","e","r","e","f","o","r","e">>, <<"T","h","u","s">>,
                 <<"H","e","n","c","e">>}
  IN SelectSeq(AddAll(AddAll(<<>>, match(0, FALSE)), match(0, TRUE)),
               LAMBDA word : word \notin common)

filterByRelatedArticles(candidates, relatedArticles) ==
  LET RECURSIVE lookup(_, _)
      lookup(m, k) ==
        IF k > Len(relatedArticles) THEN m
        ELSE lookup(MapSet(m, toLowerCase(relatedArticles[k]), relatedArticles[k]), k + 1)
      relatedLower == lookup(<<>>, 1)
      entry(candidate) ==
        LET candidateLower == toLowerCase(candidate)
            exact == {i \in 1..Len(relatedLower) : relatedLower[i].lower = candidateLower}
            partial == {i \in 1..Len(relatedLower) :
                          \/ includes(relatedLower[i].lower, candidateLower)
                          \/ includes(candidateLower, relatedLower[i].lower)}
        IN IF exact # {}
             THEN <<[text |-> candidate, article |-> relatedLower[MinOf(exact)].term]>>
           ELSE IF partial # {}
             THEN <<[text |-> candidate, article |-> relatedLower[MinOf(partial)].term]>>
           ELSE <<>>
      all == Flatten([i \in 1..Len(candidates) |-> entry(candidates[i])])
  IN SubSeq(all, 1, IF Len(all) < MAX_HIGHLIGHTS THEN Len(all) ELSE MAX_HIGHLIGHTS)

\* text.replace(regex, '<mark ...>$&</mark>') on the markup built so far.  kind
\* tells, per character of the markup, where it comes from: "text" is text of the
\* node outside every decoration, "tag" a character of an inserted tag, "marked"
\* text the replace wrapped, "nested" a character of an earlier decoration (of its
\* tags or of its text) that a later replace matched and wrapped
ReplaceTerm(h, term) ==
  LET open == <<"<","m","a","r","k"," ","c","l","a","s","s","=","\"","s","m","a","r",
                "t","h","l","\""," ","d","a","t","a","-","a","r","t","i","c","l","e",
                "=","\"">> \o term.article
              \o <<"\""," ","t","i","t","l","e","=","\"","R","e","l","a","t","e","d",
                   ":"," ","[","[">> \o term.article \o <<"]","]","\"",">">>
      close == <<"<","/","m","a","r","k",">">>
      ms == ExecAll(h.html, term.text, FALSE, 0)
      from(k) == IF k = 1 THEN 0 ELSE ms[k - 1].end
      tags(s) == [j \in 1..Len(s) |-> "tag"]
      last == IF ms = <<>> THEN 0 ELSE ms[Len(ms)].end
  IN [html |-> Flatten([k \in 1..Len(ms) |->
                 substring(h.html, from(k), ms[k].start) \o open \o ms[k].text \o close])
               \o substring(h.html, last, Len(h.html)),
      kind |-> Flatten([k \in 1..Len(ms) |->
                 substring(h.kind, from(k), ms[k].start) \o tags(open)
                 \o [j \in 1..Len(ms[k].text) |->
                       IF h.kind[ms[k].start + j] = "text" THEN "marked" ELSE "nested"]
                 \o tags(close)])
               \o substring(h.kind, last, Len(h.kind)),
      matched |-> ms # <<>>]

\* the walk over the text nodes of root.  The span replaces the node the walker
\* stands on, and nextNode() finds no node after a node that left the document
highlightTerms(nodes, terms) ==
  LET rejected(node) ==
        \/ ({node.parentTag} \cup node.ancestors) \cap {"A", "SUP"} # {}
        \/ Len(Trim(node.text)) < 3
      none == [html |-> <<>>, kind |-> <<>>]
      RECURSIVE each(_, _, _, _)
      each(h, k, modified, highlightCount) ==
        IF k > Len(terms) \/ (modified /\ highlightCount >= MAX_HIGHLIGHTS)
          THEN [html |-> h.html, kind |-> h.kind, modified |-> modified,
                highlightCount |-> highlightCount]
        ELSE LET r == ReplaceTerm(h, terms[k])
             IN IF r.matched
                  THEN each([html |-> r.html, kind |-> r.kind], k + 1, TRUE,
                            highlightCount + 1)
                ELSE each(h, k + 1, modified, highlightCount)
      RECURSIVE walk(_, _)
      walk(i, highlightCount) ==
        IF i > Len(nodes) \/ highlightCount >= MAX_HIGHLIGHTS
          THEN [j \in 1..(Len(nodes) - i + 1) |-> none]
        ELSE IF rejected(nodes[i]) THEN <<none>> \o walk(i + 1, highlightCount)
        ELSE LET r == each([html |-> nodes[i].text,
                            kind |-> [j \in 1..Len(nodes[i].text) |-> "text"]],
                           1, FALSE, highlightCount)
             IN IF r.modified
                  THEN <<[html |-> r.html, kind |-> r.kind]>>
                       \o [j \in 1..(Len(nodes) - i) |-> none]
                ELSE <<none>> \o walk(i + 1, r.highlightCount)
  IN IF terms = <<>> THEN [j \in 1..Len(nodes) |-> none] ELSE walk(1, 0)

MaxSmartWords == 2

SmartInit ==
  /\ Idle
  /\ Declared
  /\ HutOff
  /\ SeaOff
  /\ V2Off
  /\ ScanOff
  /\ V7Off
  /\ paragraphs = <<>>
  /\ validLog = <<>>
  /\ runs = 0
  /\ \E t \in TextsOf({Paris, York, <<"N","e","w">>, <<"i","s">>}, MaxSmartWords),
        rest \in {<<>>, <<TextNode(<<" ">> \o York, "A", {})>>,
                  <<TextNode(<<" ","R","e","l","a","t","e","d">>, "B", {})>>},
        links \in {<<>>, <<Paris>>, <<NewYork>>, <<York, NewYork>>,
                   <<Paris, <<"R","e","l","a","t","e","d">>>>} :
       root = [links |-> links, nodes |-> <<TextNode(t, "P", {})>> \o rest]
  /\ existingLinks = <<>>
  /\ allRelatedArticles = <<>>
  /\ wordsToHighlight = <<>>
  /\ replaced = <<>>
  /\ smartPc = "start"

\* main() up to its await
MainStart ==
  /\ smartPc = "start"
  /\ existingLinks' = AddAll(<<>>, root.links)
  /\ smartPc' = "fetching"
  /\ UNCHANGED <<root, allRelatedArticles, wordsToHighlight, replaced,
                 wiki, relevantTerms, wordOccurrences, analyses, highlights, v2, scan, v7,
                 ts14Vars, hutVars>>

\* fetchRelatedArticles returns the ns 0 links of the answer, or nothing after
\* an error or a timeout; main() runs to its end
MainResume ==
  /\ smartPc = "fetching"
  /\ \E apiLinks \in {<<>>, <<York>>, <<Paris, NewYork>>} :
       LET related == AddAll(existingLinks, apiLinks)
           words == filterByRelatedArticles(extractCandidateWords(root.nodes), related)
       IN /\ allRelatedArticles' = related
          /\ wordsToHighlight' = words
          /\ replaced' = highlightTerms(root.nodes, words)
  /\ smartPc' = "done"
  /\ UNCHANGED <<root, existingLinks, wiki, relevantTerms, wordOccurrences, analyses,
                 highlights, v2, scan, v7, ts14Vars, hutVars>>

SmartNext == MainStart \/ MainResume

SpecSmart == SmartInit /\ [][SmartNext]_vars

\* C13: every term passed on to highlightTerms equals, letter case apart, a title
\* of the related-article set.
OnlyEqualTitlesPassed ==
  \A i \in 1..Len(wordsToHighlight) :
    \E j \in 1..Len(allRelatedArticles) :
      toLowerCase(wordsToHighlight[i].text) = toLowerCase(allRelatedArticles[j])

\* C19: no replace of highlightTerms wraps characters of a decoration made
\* earlier for the same text node, of its tags or of its text.
NoDecorationInsideDecoration ==
  \A i \in 1..Len(replaced) :
    \A k \in 1..Len(replaced[i].kind) : replaced[i].kind[k] # "nested"

(***************************************************************************)
(* Smart Editor Assistant: analyzeAndBuildTermList, calculateRelevance     *)
(***************************************************************************)
\* CONFIG.batchSize is 20
SeaBatchSize == 2

\* calls of analyzeAndBuildTermList: the one of init, the ones of refresh clicks
MaxAnalyses == 2

\* CONFIG.minRelevanceScore, in tenths as every score of this model: the sums of
\* 0.5, 0.4, 0.2 and -1 compare with 0.3, 0 and 1 as their tenths do
minRelevanceScore == 3

\* commonWords of calculateRelevance
relevanceCommonWords ==
  {<<"t","h","e">>, <<"a","n","d">>, <<"o","r">>, <<"b","u","t">>,
   <<"w","i","t","h">>, <<"f","r","o","m">>, <<"t","h","i","s">>,
   <<"t","h","a","t">>, <<"t","h","e","s","e">>, <<"t","h","o","s","e">>,
   <<"j","a","n","u","a","r","y">>, <<"f","e","b","r","u","a","r","y">>,
   <<"m","a","r","c","h">>, <<"a","p","r","i","l">>, <<"m","a","y">>,
   <<"j","u","n","e">>, <<"j","u","l","y">>, <<"a","u","g","u","s","t">>,
   <<"s","e","p","t","e","m","b","e","r">>, <<"o","c","t","o","b","e","r">>,
   <<"n","o","v","e","m","b","e","r">>, <<"d","e","c","e","m","b","e","r">>,
   <<"m","o","n","d","a","y">>, <<"t","u","e","s","d","a","y">>,
   <<"w","e","d","n","e","s","d","a","y">>, <<"t","h","u","r","s","d","a","y">>,
   <<"f","r","i","d","a","y">>, <<"s","a","t","u","r","d","a","y">>,
   <<"s","u","n","d","a","y">>}

calculateRelevanceNoPenalty(term, articleLinks, wikidataEntities) ==
  LET lower == toLowerCase(term)
      articleLower == toLowerCase(wiki.title)
      score == (IF lower \in articleLinks THEN 5 ELSE 0)
               + (IF \E i \in 1..Len(wikidataEntities) :
                       toLowerCase(wikidataEntities[i]) = lower THEN 4 ELSE 0)
               + (IF term # <<>> /\ term[1] \in UpperSet THEN 2 ELSE 0)
  IN IF lower = articleLower THEN 0
     ELSE IF includes(articleLower, lower) \/ includes(lower, articleLower) THEN 0
     ELSE IF score > 10 THEN 10 ELSE score

calculateRelevance(term, articleLinks, wikidataEntities) ==
  LET lower == toLowerCase(term)
      articleLower == toLowerCase(wiki.title)
      score == (IF lower \in articleLinks THEN 5 ELSE 0)
               + (IF \E i \in 1..Len(wikidataEntities) :
                       toLowerCase(wikidataEntities[i]) = lower THEN 4 ELSE 0)
               + (IF term # <<>> /\ term[1] \in UpperSet THEN 2 ELSE 0)
               - (IF lower \in relevanceCommonWords THEN 10 ELSE 0)
               - (IF AllDigits(term) THEN 10 ELSE 0)
  IN IF lower = articleLower THEN 0
     ELSE IF includes(articleLower, lower) \/ includes(lower, articleLower) THEN 0
     ELSE IF score < 0 THEN 0 ELSE IF score > 10 THEN 10 ELSE score

\* the three patterns of extractWords are the first three of findCandidateWords
extractWords(text) ==
  LET RECURSIVE strip(_)
      \* text.replace(/\[\[.*?\]\]/g, '')
      strip(s) ==
        LET closes(p) == {q \in (p + 2)..(Len(s) - 2) :
                            /\ s[q + 1] = "]" /\ s[q + 2] = "]"
                            /\ \A j \in (p + 3)..q : s[j] # "\n"}
            found == {p \in 0..(Len(s) - 4) :
                        s[p + 1] = "[" /\ s[p + 2] = "[" /\ closes(p) # {}}
        IN IF found = {} THEN s
           ELSE LET p == MinOf(found)
                IN SubSeq(s, 1, p) \o strip(SubSeq(s, MinOf(closes(p)) + 3, Len(s)))
      t == strip(text)
  IN AddAll(AddAll(AddAll(<<>>, MatchAll(t, 0, 1)), MatchAll(t, 0, 2)), MatchAll(t, 0, 3))

\* wordOccurrences after trackWordOccurrences(text, paragraphIndex)
trackWordOccurrences(occurrences, text) ==
  LET RECURSIVE track(_, _, _)
      track(words, occ, k) ==
        IF k > Len(words) THEN occ
        ELSE LET lower == toLowerCase(words[k])
                 n == Len(ExecAll(text, words[k], TRUE, 0))
                 at == {i \in 1..Len(occ) : occ[i].term = lower}
             IN CHOOSE r \in {track(words, next, k + 1) :
                                next \in {IF n = 0 THEN occ
                                          ELSE IF at = {}
                                            THEN Append(occ, [term |-> lower, count |-> n])
                                          ELSE [occ EXCEPT ![MinOf(at)].count = @ + n]}} :
                  TRUE
  IN CHOOSE r \in {track(words, occ, 1) :
                     words \in {extractWords(text)}, occ \in {occurrences}} : TRUE

\* analyzeAndBuildTermList from "Analyzing text..." to its first await: the
\* occurrences and the locals of the call
AnalyzeText(a, wikidataEntities) ==
  LET RECURSIVE over(_, _)
      over(occ, idx) ==
        IF idx > Len(wiki.paragraphs) THEN occ
        ELSE CHOOSE r \in {over(next, idx + 1) :
                             next \in {trackWordOccurrences(occ, wiki.paragraphs[idx])}} :
               TRUE
      allText == Flatten([idx \in 1..Len(wiki.paragraphs) |->
                            wiki.paragraphs[idx] \o <<"\n">>])
      at(i) == (i - 1) * SeaBatchSize
      batches(allWords) ==
        <<>> \o [i \in 1..((Len(allWords) + SeaBatchSize - 1) \div SeaBatchSize) |->
                  SubSeq(allWords, at(i) + 1,
                         IF at(i) + SeaBatchSize < Len(allWords)
                           THEN at(i) + SeaBatchSize ELSE Len(allWords))]
  IN [occurrences |-> over(wordOccurrences, 1),
      call |-> [a EXCEPT !.wikidataEntities = wikidataEntities,
                         !.batches = CHOOSE b \in {batches(allWords) :
                                                     allWords \in {extractWords(allText)}} :
                                       TRUE,
                         !.pc = "check"]]

\* relevantTerms after the forEach over existingTerms of the call
ScoreTerms(a, terms, occurrences) ==
  LET RECURSIVE score(_, _)
      score(m, k) ==
        IF k > Len(a.existingTerms) THEN m
        ELSE LET term == a.existingTerms[k]
                 s == calculateRelevance(term, a.articleLinks, a.wikidataEntities)
                 occ == {i \in 1..Len(occurrences) : occurrences[i].term = term}
                 entry == [term |-> term, score |-> s,
                           count |-> IF occ = {} THEN 1
                                     ELSE occurrences[MinOf(occ)].count]
                 at == {i \in 1..Len(m) : m[i].term = term}
             IN CHOOSE r \in {score(next, k + 1) :
                                next \in {IF s < minRelevanceScore THEN m
                                          ELSE IF at = {} THEN Append(m, entry)
                                          ELSE [m EXCEPT ![MinOf(at)] = entry]}} :
                  TRUE
  IN score(terms, 1)

\* applyHighlights(): highlightInElement on every p that is not yet highlighted
\* and holds over 50 characters
applyHighlights(terms) ==
  [idx \in 1..Len(highlights) |->
     IF highlights[idx].highlighted \/ ~(Len(Trim(wiki.paragraphs[idx])) > 50)
       THEN highlights[idx]
     ELSE LET text == wiki.paragraphs[idx]
          IN [highlighted |-> TRUE,
              spans |-> CHOOSE v \in {AcceptMatches(SortByStart(matches), <<>>) :
                                        matches \in {Flatten([k \in 1..Len(terms) |->
                                          ExecAll(text, terms[k].term, TRUE, 0)])}} :
                          TRUE]]

\* a call of analyzeAndBuildTermList at its first await
NewAnalysis ==
  [pc |-> "links", articleLinks |-> {}, wikidataEntities |-> <<>>, batches |-> <<>>,
   batch |-> 1, existingTerms |-> <<>>]

\* the end of analyzeAndBuildTermList and what its caller does after it; the
\* locals of the call are gone
Finish(n, a, occurrences) ==
  \E terms \in {ScoreTerms(a, relevantTerms, occurrences)} :
     /\ relevantTerms' = terms
     /\ wordOccurrences' = occurrences
     /\ highlights' = applyHighlights(terms)
     /\ analyses' = [analyses EXCEPT ![n] = [NewAnalysis EXCEPT !.pc = "done"]]

seaFrame == <<ts14Vars, hutVars, root, existingLinks, allRelatedArticles,
              wordsToHighlight, replaced, smartPc, v2, scan, v7>>

\* init(), up to the first await of analyzeAndBuildTermList, on a page in read mode
SeaInit ==
  /\ Idle
  /\ Declared
  /\ HutOff
  /\ SmartOff
  /\ V2Off
  /\ ScanOff
  /\ V7Off
  /\ paragraphs = <<>>
  /\ validLog = <<>>
  /\ runs = 0
  /\ \E title \in {Paris, NewYork}, t \in {York, June, York \o <<" ">> \o June} :
       wiki = [title |-> title, paragraphs |-> <<Filler \o t>>,
               links |-> {toLowerCase(York), toLowerCase(June)},
               entities |-> <<York, City>>, pages |-> {York, June, NewYork}]
  /\ relevantTerms = <<>>
  /\ wordOccurrences = <<>>
  /\ analyses = <<NewAnalysis>>
  /\ highlights = [idx \in 1..Len(wiki.paragraphs) |-> [highlighted |-> FALSE, spans |-> <<>>]]

\* the click handler of refreshTerms, up to the first await
RefreshClick ==
  /\ Len(analyses) < MaxAnalyses
  /\ relevantTerms' = <<>>
  /\ wordOccurrences' = <<>>
  /\ analyses' = Append(analyses, NewAnalysis)
  /\ UNCHANGED <<wiki, highlights, seaFrame>>

\* fetchArticleLinks returns: the lower-cased link titles, or nothing after an error
LinksArrive ==
  /\ \E n \in 1..Len(analyses), links \in {wiki.links, {}} :
       /\ analyses[n].pc = "links"
       /\ analyses' = [analyses EXCEPT ![n].articleLinks = links, ![n].pc = "qid"]
  /\ UNCHANGED <<wiki, relevantTerms, wordOccurrences, highlights, seaFrame>>

\* getWikidataQID returns.  Without a QID the call goes on to the text
QidArrives ==
  /\ \E n \in 1..Len(analyses) :
       /\ analyses[n].pc = "qid"
       /\ \/ /\ analyses' = [analyses EXCEPT ![n].pc = "entities"]
             /\ UNCHANGED <<relevantTerms, wordOccurrences, highlights>>
          \/ \E r \in {AnalyzeText(analyses[n], <<>>)} :
                IF r.call.batches = <<>> THEN Finish(n, r.call, r.occurrences)
                ELSE /\ analyses' = [analyses EXCEPT ![n] = r.call]
                     /\ wordOccurrences' = r.occurrences
                     /\ UNCHANGED <<relevantTerms, highlights>>
  /\ UNCHANGED <<wiki, seaFrame>>

\* fetchWikidataRelatedEntities returns: the labels, or nothing after an error
EntitiesArrive ==
  /\ \E n \in 1..Len(analyses), entities \in {wiki.entities, <<>>} :
       /\ analyses[n].pc = "entities"
       /\ \E r \in {AnalyzeText(analyses[n], entities)} :
             IF r.call.batches = <<>> THEN Finish(n, r.call, r.occurrences)
             ELSE /\ analyses' = [analyses EXCEPT ![n] = r.call]
                  /\ wordOccurrences' = r.occurrences
                  /\ UNCHANGED <<relevantTerms, highlights>>
  /\ UNCHANGED <<wiki, seaFrame>>

\* checkTermsExist(batch) returns: the lower-cased titles of the pages that have a
\* pageid, or nothing after an error
TermsChecked ==
  /\ \E n \in 1..Len(analyses) :
       LET a == analyses[n]
           batch == a.batches[a.batch]
           titles == {toLowerCase(p) : p \in wiki.pages}
           existing == SelectSeq([i \in 1..Len(batch) |-> toLowerCase(NormalizeTitle(batch[i]))],
                                 LAMBDA t : t \in titles)
       IN /\ a.pc = "check"
          /\ \E answer \in {existing, <<>>} :
               analyses' = [analyses EXCEPT ![n].existingTerms = AddAll(@, answer),
                                            ![n].pc = "delay"]
  /\ UNCHANGED <<wiki, relevantTerms, wordOccurrences, highlights, seaFrame>>

\* the timer of CONFIG.delay fires: the next batch, or the scores
DelayOver ==
  /\ \E n \in 1..Len(analyses) :
       LET a == analyses[n]
       IN /\ a.pc = "delay"
          /\ IF a.batch < Len(a.batches)
               THEN /\ analyses' = [analyses EXCEPT ![n].batch = @ + 1, ![n].pc = "check"]
                    /\ UNCHANGED <<relevantTerms, wordOccurrences, highlights>>
             ELSE Finish(n, a, wordOccurrences)
  /\ UNCHANGED <<wiki, seaFrame>>

SeaNext ==
  RefreshClick \/ LinksArrive \/ QidArrives \/ EntitiesArrive \/ TermsChecked \/ DelayOver

SpecSea == SeaInit /\ [][SeaNext]_vars

\* C14: every entry of relevantTerms carries a score from minRelevanceScore to 1
\* that calculateRelevance gave it in a call that found the term to have a page;
\* no entry is a common word,
\* a number, or a term that contains the article title or is contained in it.
StoredTermsAreRelevant ==
  [][\A i \in 1..Len(relevantTerms') :
       LET e == relevantTerms'[i]
           articleLower == toLowerCase(wiki.title)
       IN /\ minRelevanceScore <= e.score
          /\ e.score <= 10
          /\ e.term \notin relevanceCommonWords
          /\ ~AllDigits(e.term)
          /\ ~includes(articleLower, e.term)
          /\ ~includes(e.term, articleLower)
          /\ (\A j \in 1..Len(relevantTerms) : relevantTerms[j] # e)
               => \E n \in 1..Len(analyses) :
                    /\ \E k \in 1..Len(analyses[n].existingTerms) :
                         analyses[n].existingTerms[k] = e.term
                    /\ e.score = calculateRelevance(e.term, analyses[n].articleLinks,
                                                    analyses[n].wikidataEntities)]_vars

\* every call has ended, one term of the text is stored and another term of the
\* text, which has a page, is not
StoredTermsWitness ==
  /\ \A n \in 1..Len(analyses) : analyses[n].pc = "done"
  /\ relevantTerms # <<>>
  /\ \E l \in 1..Len(wordOccurrences) :
       /\ wordOccurrences[l].term \in {toLowerCase(p) : p \in wiki.pages}
       /\ \A i \in 1..Len(relevantTerms) : relevantTerms[i].term # wordOccurrences[l].term

(***************************************************************************)
(* checkPagesExist on a title the registry reports in another form, and    *)
(* cleanCache on the records of missing titles                             *)
(***************************************************************************)
\* the article Paris, with two paragraphs that hold "New  York" with two spaces
KeysInit ==
  /\ now = 1
  /\ Declared
  /\ stored = NothingStored
  /\ savedConfig = NothingStored
  /\ page = [heading |-> Paris, links |-> <<>>,
             paragraphs |->
               <<>> \o [i \in 1..2 |->
                  Paragraph(<<TextNode(Filler \o <<"N","e","w"," "," ">> \o York, "P", {})>>)]]
  /\ paragraphs = page.paragraphs
  /\ registry \in Registries
  /\ pc = "start"
  /\ queue = <<>>
  /\ toCheck = <<>>
  /\ batchStart = 0
  /\ pending = <<>>
  /\ requests = <<>>
  /\ reads = {}
  /\ validLog = <<>>
  /\ runs = 0
  /\ sinceReset = 0
  /\ admitted = <<>>
  /\ HutOff
  /\ RestOff

SpecKeys == KeysInit /\ [][PipeNext]_vars

\* C15: when the answer of the registry has been handled, every title of the
\* request has a record in cache.exists or cache.notExists under its own
\* lower-cased form.
RequestedKeysCached ==
  [][FetchOk => \A j \in 1..Len(pending) :
                  toLowerCase(pending[j]) \in DOMAIN cache'.exists \cup DOMAIN cache'.notExists]_vars

\* C16: cleanCache at the end of init keeps every record of a missing title that
\* is younger than cacheExpiry.
YoungNegativesSurvive ==
  [][pc = "loop" /\ pc' = "done" =>
       \A k \in DOMAIN cache.notExists :
         now - cache.notExists[k] < cacheExpiry => k \in DOMAIN cache'.notExists]_vars

\* C17: no accepted match of a text node lies inside a longer match of another
\* term on the same node, the same start offset included.
LongerTermWins ==
  \A i \in 1..Len(validLog) :
    \A v \in 1..Len(validLog[i].valid), m \in 1..Len(validLog[i].matches) :
      LET short == validLog[i].valid[v]
          long == validLog[i].matches[m]
      IN ~(/\ long.start <= short.start
           /\ short.end <= long.end
           /\ long.end - long.start > short.end - short.start)

\* C18: a run of highlightInParagraph leaves the text content of the paragraph as
\* it was, character for character.
TextContentKept ==
  [][textContent(paragraphs'[1]) = textContent(paragraphs[1])]_vars

(***************************************************************************)
(* highlight-unlinked-terms, fixed v2: batches issued together and joined  *)
(***************************************************************************)
\* API_BATCH, kept small
API_BATCH == 2

\* candidateRegex at offset p: a run of 3 letters or more, then up to two times
\* white space and a run of 3 letters or more, as many as there are; the offset
\* where the match ends, or -1 (the texts hold letters, spaces and commas)
candidateRegexEnd(text, p) ==
  LET letters == UpperSet \cup LowerSet
      more(e) == LET s == RunEnd(text, e, {" ", "\n"})
                 IN IF s > e /\ s < Len(text) /\ text[s + 1] \in letters
                       /\ RunEnd(text, s, letters) - s >= 3
                    THEN RunEnd(text, s, letters) ELSE e
      e1 == RunEnd(text, p, letters)
  IN IF p < Len(text) /\ WordBoundary(text, p) /\ text[p + 1] \in letters /\ e1 - p >= 3
     THEN more(more(e1)) ELSE -1

\* n.textContent.match(candidateRegex), from offset from on
RECURSIVE candidateMatches(_, _)
candidateMatches(text, from) ==
  LET found == {p \in from..Len(text) : candidateRegexEnd(text, p) # -1}
  IN IF found = {} THEN <<>>
     ELSE <<substring(text, MinOf(found), candidateRegexEnd(text, MinOf(found)))>>
          \o candidateMatches(text, candidateRegexEnd(text, MinOf(found)))

\* collectTextNodes of the fixed script: no text of white space only, nothing
\* below the skipped elements
collectTextNodesV2(nodes) ==
  SelectSeq(nodes, LAMBDA n :
    /\ Trim(n.text) # <<>>
    /\ n.tag \notin {"A", "SUP", "SUB", "CITE", "STYLE", "SCRIPT", "MARK", "TABLE",
                     "IMG", "FIGURE", "CODE", "PRE"})

\* the candidates Set: the trimmed matches of the candidate nodes that are
\* neither digits only nor on the blacklist
candidatesOf(nodes) ==
  LET stop == {<<"t","h","e">>, <<"a","n","d">>, <<"f","o","r">>, <<"a","r","e">>,
               <<"w","a","s">>, <<"w","e","r","e">>, <<"w","i","t","h">>,
               <<"f","r","o","m">>, <<"t","h","i","s">>, <<"t","h","a","t">>,
               <<"t","h","e","s","e">>, <<"t","h","o","s","e">>,
               <<"a","b","o","u","t">>, <<"w","h","i","c","h">>,
               <<"t","h","e","i","r">>, <<"t","h","e","r","e">>,
               <<"o","t","h","e","r">>, <<"a","l","s","o">>, <<"t","h","a","n">>,
               <<"t","h","e","n">>, <<"s","u","c","h">>, <<"h","a","v","e">>,
               <<"i","n","t","o">>, <<"a","f","t","e","r">>,
               <<"b","e","f","o","r","e">>, <<"d","u","r","i","n","g">>,
               <<"w","i","t","h","i","n">>, <<"a","m","o","n","g">>,
               <<"b","e","t","w","e","e","n">>, <<"t","h","r","o","u","g","h">>,
               <<"o","v","e","r">>, <<"u","n","d","e","r">>}
      all == Flatten([i \in 1..Len(nodes) |->
               [j \in 1..Len(candidateMatches(nodes[i].text, 0)) |->
                  Trim(candidateMatches(nodes[i].text, 0)[j])]])
  IN AddAll(<<>>, SelectSeq(all, LAMBDA m :
       m # <<>> /\ ~AllDigits(m) /\ toLowerCase(m) \notin stop))

\* the trimmed, non-empty texts of the a elements of contentElem
linkedTexts(elem) ==
  {Trim(elem[i].text) : i \in {i \in 1..Len(elem) : elem[i].tag = "A"}} \ {<<>>}

\* toCheck.slice(i, i + API_BATCH) for the k-th promise
ChunkV2(toCheck_, k) ==
  SubSeq(toCheck_, (k - 1) * API_BATCH + 1,
         IF k * API_BATCH < Len(toCheck_) THEN k * API_BATCH ELSE Len(toCheck_))

\* results.forEach of the callback of Promise.all: the existing Set
RECURSIVE existingOf(_, _)
existingOf(results, have) ==
  IF results = <<>> THEN have
  ELSE LET r == Head(results)
           ok == SelectSeq(r.pages, LAMBDA p : ~p.missing /\ ~IsDisambiguation(p))
           added == Flatten([i \in 1..Len(ok) |->
                      <<ok[i].title>>
                      \o [j \in 1..Len(SelectSeq(r.redirects, LAMBDA rd : rd.to = ok[i].title)) |->
                            SelectSeq(r.redirects, LAMBDA rd : rd.to = ok[i].title)[j].from]])
       IN existingOf(Tail(results), AddAll(have, added))

\* Array.prototype.sort((a, b) => b.length - a.length): stable, longest first
RECURSIVE sortByLength(_)
sortByLength(ts) ==
  IF Len(ts) <= 1 THEN ts
  ELSE LET rest == sortByLength(SubSeq(ts, 1, Len(ts) - 1))
           last == ts[Len(ts)]
           k    == Cardinality({i \in 1..Len(rest) : Len(rest[i]) >= Len(last)})
       IN SubSeq(rest, 1, k) \o <<last>> \o SubSeq(rest, k + 1, Len(rest))

\* the while loop of termRE.exec over one text node: the spans made so far and
\* the ones it adds; a term with a span or with a link of its exact text is passed over
RECURSIVE spansOfNode(_, _, _, _, _, _)
spansOfNode(n, text, list, linked, from, made) ==
  LET m == HighlightExec(text, list, from)
  IN IF m.index = -1 THEN made
     ELSE spansOfNode(n, text, list, linked, m.index + Len(m.term),
            IF (\E i \in 1..Len(made) : made[i].term = m.term) \/ m.term \in linked
            THEN made
            ELSE Append(made, [node |-> n, index |-> m.index, term |-> m.term]))

\* pageTextNodes.forEach of the callback of Promise.all
RECURSIVE spansOf(_, _, _, _, _)
spansOf(nodes, list, linked, n, made) ==
  IF n > Len(nodes) THEN made
  ELSE spansOf(nodes, list, linked, n + 1,
         IF nodes[n].tag \in {"A", "SUP", "CITE"} THEN made
         ELSE spansOfNode(n, nodes[n].text, list, linked, 0, made))

\* the spans the callback of Promise.all makes from results
highlightV2(elem, nodes, results) ==
  LET existing == existingOf(results, <<>>)
  IN IF existing = <<>> THEN <<>>
     ELSE spansOf(nodes, sortByLength(existing), linkedTexts(elem), 1, <<>>)

v2Frame ==
  <<ts14Vars, hutVars, root, existingLinks, allRelatedArticles, wordsToHighlight, replaced,
    smartPc, wiki, relevantTerms, wordOccurrences, analyses, highlights, scan, v7>>

\* an article in view mode: one or two text nodes below p, or one below p and
\* one below a
V2Init ==
  /\ Idle
  /\ Declared
  /\ paragraphs = <<>>
  /\ validLog = <<>>
  /\ runs = 0
  /\ HutOff
  /\ SmartOff
  /\ SeaOff
  /\ ScanOff
  /\ V7Off
  /\ \E t \in PhraseTexts(MaxPhrases) :
       \E rest \in {<<>>, <<[text |-> <<"a","n","d">>, tag |-> "P"]>>}
                   \cup {<<[text |-> u, tag |-> "P"]>> : u \in HutPhrases}
                   \cup {<<[text |-> u, tag |-> "A"]>> : u \in HutPhrases} :
         v2 = [pc |-> "start", contentElem |-> <<[text |-> t, tag |-> "P"]>> \o rest,
               pageTextNodes |-> <<>>, toCheck |-> <<>>, promises |-> <<>>,
               existing |-> <<>>, alreadyHighlighted |-> <<>>, spans |-> <<>>]

\* the script up to Promise.all(promises): every batch is requested
V2Scan ==
  /\ v2.pc = "start"
  /\ \E nodes \in {collectTextNodesV2(v2.contentElem)} :
       \E check \in {SelectSeq(candidatesOf(nodes),
                               LAMBDA term : term \notin linkedTexts(v2.contentElem))} :
         v2' = [v2 EXCEPT
                  !.pageTextNodes = nodes,
                  !.toCheck = check,
                  !.promises = [k \in 1..((Len(check) + API_BATCH - 1) \div API_BATCH) |->
                                  [state |-> "pending", query |-> Answer(<<>>, <<>>, "")]],
                  !.pc = IF check = <<>> THEN "returned" ELSE "waiting"]
  /\ UNCHANGED v2Frame

\* the answer to one batch arrives: with its pages, or without query.pages
V2Answer ==
  /\ v2.pc \in {"waiting", "failed"}
  /\ \E k \in 1..Len(v2.promises) :
       /\ v2.promises[k].state = "pending"
       /\ \/ \E pages \in PageOrders(ChunkV2(v2.toCheck, k)), value \in PropValues :
               v2' = [v2 EXCEPT !.promises[k] =
                        [state |-> "fulfilled",
                         query |-> Answer(ChunkV2(v2.toCheck, k), pages, value)]]
          \/ v2' = [v2 EXCEPT !.promises[k].state = "fulfilled"]
  /\ UNCHANGED v2Frame

\* the request of one batch fails: Promise.all rejects with the first failure
\* and the catch logs it
V2Reject ==
  /\ v2.pc \in {"waiting", "failed"}
  /\ \E k \in 1..Len(v2.promises) :
       /\ v2.promises[k].state = "pending"
       /\ v2' = [v2 EXCEPT !.promises[k].state = "rejected", !.pc = "failed"]
  /\ UNCHANGED v2Frame

\* the then-callback of Promise.all(promises): every batch was answered
V2Highlight ==
  /\ v2.pc = "waiting"
  /\ \A k \in 1..Len(v2.promises) : v2.promises[k].state = "fulfilled"
  /\ \E results \in {[k \in 1..Len(v2.promises) |-> v2.promises[k].query]} :
       \E made \in {highlightV2(v2.contentElem, v2.pageTextNodes, results)} :
         v2' = [v2 EXCEPT !.existing = existingOf(results, <<>>),
                          !.spans = made,
                          !.alreadyHighlighted = [i \in 1..Len(made) |-> made[i].term],
                          !.pc = "done"]
  /\ UNCHANGED v2Frame

V2Next == V2Scan \/ V2Answer \/ V2Reject \/ V2Highlight

SpecV2 == V2Init /\ [][V2Next]_vars

\* C20: once every batch has been answered or has failed and the callbacks of
\* Promise.all have run, the decorated terms are the ones the highlight pass
\* makes from the answers of the batches that succeeded: a failed batch
\* contributes nothing and takes nothing away from the others.
FailedBatchDoesNotBlock ==
  (/\ v2.pc \in {"done", "failed"}
   /\ \A k \in 1..Len(v2.promises) : v2.promises[k].state # "pending")
    => LET answered == SelectSeq(v2.promises, LAMBDA p : p.state = "fulfilled")
           made == highlightV2(v2.contentElem, v2.pageTextNodes,
                               [k \in 1..Len(answered) |-> answered[k].query])
       IN v2.alreadyHighlighted = [i \in 1..Len(made) |-> made[i].term]

(***************************************************************************)
(* Smart Editor Assistant: occurrence counts under refresh clicks          *)
(***************************************************************************)
\* the matches of \bterm\b, letter case ignored, in the paragraphs from idx on
RECURSIVE OccurrencesIn(_, _)
OccurrencesIn(term, idx) ==
  IF idx > Len(wiki.paragraphs) THEN 0
  ELSE Len(ExecAll(wiki.paragraphs[idx], term, TRUE, 0)) + OccurrencesIn(term, idx + 1)

\* C30: when every call of analyzeAndBuildTermList has ended, the count stored
\* with each term of relevantTerms is the number of occurrences of the term in
\* the paragraphs, whatever the order of refresh clicks and answers.
CountsMatchText ==
  (\A n \in 1..Len(analyses) : analyses[n].pc = "done")
    => \A i \in 1..Len(relevantTerms) :
         relevantTerms[i].count = OccurrencesIn(relevantTerms[i].term, 1)

(***************************************************************************)
(* Advanced Word Highlighter: a stop request while a call is in flight     *)
(***************************************************************************)
\* C21: once shouldStop is set, the answer to the call in flight changes
\* neither wikiTerms nor the cache nor the paragraphs, and the steps of
\* highlightParagraph that follow send no title list and replace no text node.
CancelledResultDiscarded ==
  [][/\ (shouldStop /\ pc = "awaitFetch")
          => (wikiTerms' = wikiTerms /\ cache' = cache /\ paragraphs' = paragraphs)
     /\ (shouldStop /\ pc \in {"batch", "delay", "finish"})
          => /\ requests' = requests
             /\ \A i \in 1..Len(paragraphs) : paragraphs'[i].nodes = paragraphs[i].nodes]_vars

(***************************************************************************)
(* processAllParagraphs on a page with a paragraph outside the viewport    *)
(***************************************************************************)
\* the pages of Pages, their second paragraph inside or outside the viewport
ViewInit ==
  /\ now = 1
  /\ Declared
  /\ stored = NothingStored
  /\ savedConfig = NothingStored
  /\ \E p \in Pages, below \in BOOLEAN :
       page = [p EXCEPT !.paragraphs[2].inViewport = ~below]
  /\ paragraphs = page.paragraphs
  /\ registry \in Registries
  /\ pc = "start"
  /\ queue = <<>>
  /\ toCheck = <<>>
  /\ batchStart = 0
  /\ pending = <<>>
  /\ requests = <<>>
  /\ reads = {}
  /\ validLog = <<>>
  /\ runs = 0
  /\ sinceReset = 0
  /\ admitted = <<>>
  /\ HutOff
  /\ RestOff

SpecView == ViewInit /\ [][PipeNext]_vars

\* C24: when processAllParagraphs has finished and no stop was requested,
\* processedCount equals totalCount and every paragraph of over
\* minParagraphLength characters is marked highlighted.
AllSelectedProcessed ==
  (pc = "done" /\ ~shouldStop)
    => /\ processedCount = totalCount
       /\ \A i \in 1..Len(paragraphs) :
            Len(Trim(textContent(paragraphs[i]))) > minParagraphLength
              => paragraphs[i].highlighted

(***************************************************************************)
(* init() on what the script storage holds: settings and cache             *)
(***************************************************************************)
\* the article Paris with or without a link, its first paragraph ending with
\* York; the storage holds no cache, a text that is not JSON or JSON that is not
\* a cache object, and no settings or settings with enabled true or false
StorageInit ==
  /\ now = 1
  /\ Declared
  /\ stored \in {NothingStored, NotJson, OtherJson}
  /\ savedConfig \in {NothingStored, SavedSettings(TRUE), SavedSettings(FALSE)}
  /\ page \in {p \in Pages : p.heading = Paris /\ textContent(p.paragraphs[1]) = Filler \o York}
  /\ paragraphs = page.paragraphs
  /\ registry \in Registries
  /\ pc = "start"
  /\ queue = <<>>
  /\ toCheck = <<>>
  /\ batchStart = 0
  /\ pending = <<>>
  /\ requests = <<>>
  /\ reads = {}
  /\ validLog = <<>>
  /\ runs = 0
  /\ sinceReset = 0
  /\ admitted = <<>>
  /\ HutOff
  /\ RestOff

SpecStorage == StorageInit /\ [][PipeNext]_vars

\* C23: whatever text the storage holds for the cache, init() does not end
\* with an uncaught error, and from extractExistingLinks on cache is an object
\* with exists and notExists.
RecoversFromCorruptCache ==
  /\ pc # "crashed"
  /\ pc # "start" => Usable(cache)

\* C29: with enabled false in the stored settings, init() extracts nothing,
\* sends nothing to the registry and annotates no paragraph.
DisabledDoesNothing ==
  savedConfig = SavedSettings(FALSE)
    => /\ pc \in {"start", "disabled"}
       /\ wikiTerms = <<>>
       /\ requests = <<>>
       /\ runs = 0

(***************************************************************************)
(* highlightTextNode: the loop over regex.exec, one call at a time         *)
(***************************************************************************)
\* matches.length is followed up to this number; calls is the number of calls of
\* regex.exec modulo 2
MaxScanMatches == 3

scanFrame ==
  <<ts14Vars, hutVars, root, existingLinks, allRelatedArticles, wordsToHighlight, replaced,
    smartPc, wiki, relevantTerms, wordOccurrences, analyses, highlights, v2, v7>>

\* a text node of up to MaxWords words or of one space, and the terms of
\* wikiTerms: a word, and the empty term of a link to "/wiki/"; the page has
\* no heading or the heading x
ScanInit ==
  /\ cache = EmptyCache(0)
  /\ isProcessing = FALSE
  /\ shouldStop = FALSE
  /\ processedCount = 0
  /\ totalCount = 0
  /\ requestCount = 0
  /\ requestTimer = FALSE
  /\ CONFIG = DEFAULT_CONFIG
  /\ wikiTerms = <<>>
  /\ currentArticle \in {<<>>, <<"x">>}
  /\ Idle
  /\ HutOff
  /\ SmartOff
  /\ SeaOff
  /\ V2Off
  /\ V7Off
  /\ paragraphs = <<>>
  /\ validLog = <<>>
  /\ runs = 0
  /\ \E text \in TextsOf(NodeWords, MaxWords) \cup {<<" ">>},
        terms \in {<<w>> : w \in NodeWords} \cup {<<<<>>>>}
                  \cup {<<w, <<>>>> : w \in NodeWords} \cup {<<<<>>, w>> : w \in NodeWords} :
       scan = [pc |-> "scanning", text |-> text, terms |-> terms, term |-> 1,
               lastIndex |-> 0, matches |-> 0, calls |-> 0]

\* one turn of wikiTerms.forEach or one call of regex.exec(text) in the while
\* loop: exec searches from regex.lastIndex on and sets it to the end of the
\* match, which for an empty match is where the match is
ScanExec ==
  /\ scan.pc = "scanning"
  /\ IF scan.term > Len(scan.terms) THEN scan' = [scan EXCEPT !.pc = "scanned"]
     ELSE LET originalTerm == scan.terms[scan.term]
              found == {p \in scan.lastIndex..(Len(scan.text) - Len(originalTerm)) :
                          TermAt(scan.text, p, originalTerm, TRUE)}
          IN IF shouldExclude(originalTerm)
             THEN scan' = [scan EXCEPT !.term = @ + 1, !.lastIndex = 0]
             ELSE IF found = {}
             THEN scan' = [scan EXCEPT !.term = @ + 1, !.lastIndex = 0,
                                       !.calls = (@ + 1) % 2]
             ELSE scan' = [scan EXCEPT
                             !.lastIndex = MinOf(found) + Len(originalTerm),
                             !.matches = IF @ < MaxScanMatches THEN @ + 1 ELSE @,
                             !.calls = (@ + 1) % 2]
  /\ UNCHANGED scanFrame

ScanNext == ScanExec

\* the loop runs on as long as it has a turn to make
FairSpecScan == ScanInit /\ [][ScanNext]_vars /\ WF_vars(ScanExec)

\* C25: the scan of every text node for every term comes to its end.
ScanReachesEnd == <>(scan.pc = "scanned")

(***************************************************************************)
(* Wikipedia Smart Word Highlighter, version 7.0 (src/unnamed/part_002),   *)
(* on an article in view mode (isEditMode is false)                        *)
(***************************************************************************)
MaxClicks == 3

\* CONFIG.batchSize, scaled down
V7BatchSize == 2

\* the exclude array of shouldExclude
exclude ==
  << <<"j","a","n","u","a","r","y">>,
     <<"f","e","b","r","u","a","r","y">>,
     <<"m","a","r","c","h">>,
     <<"a","p","r","i","l">>,
     <<"m","a","y">>,
     <<"j","u","n","e">>,
     <<"j","u","l","y">>,
     <<"a","u","g","u","s","t">>,
     <<"s","e","p","t","e","m","b","e","r">>,
     <<"o","c","t","o","b","e","r">>,
     <<"n","o","v","e","m","b","e","r">>,
     <<"d","e","c","e","m","b","e","r">>,
     <<"m","o","n","d","a","y">>,
     <<"t","u","e","s","d","a","y">>,
     <<"w","e","d","n","e","s","d","a","y">>,
     <<"t","h","u","r","s","d","a","y">>,
     <<"f","r","i","d","a","y">>,
     <<"s","a","t","u","r","d","a","y">>,
     <<"s","u","n","d","a","y">>,
     <<"t","h","e">>,
     <<"a","n","d">>,
     <<"o","r">>,
     <<"b","u","t">>,
     <<"w","i","t","h">>,
     <<"f","r","o","m">>,
     <<"t","h","i","s">>,
     <<"t","h","a","t">>,
     <<"t","h","e","s","e">>,
     <<"t","h","o","s","e">>,
     <<"w","i","k","i","p","e","d","i","a">>,
     <<"r","e","t","r","i","e","v","e","d">>,
     <<"a","r","c","h","i","v","e","d">>,
     <<"o","r","i","g","i","n","a","l">>,
     <<"e","x","t","e","r","n","a","l">>,
     <<"r","e","f","e","r","e","n","c","e","s">> >>

\* shouldExclude(word) of version 7.0, with currentArticle as a parameter
shouldExclude7(word, article) ==
  LET lower == toLowerCase(word)
      articleLower == toLowerCase(article)
  IN \/ lower = articleLower
     \/ includes(articleLower, lower)
     \/ includes(lower, articleLower)
     \/ \E i \in 1..Len(exclude) : exclude[i] = lower
     \/ AllDigits(word)

\* the exclude list and the number test of shouldExclude alone
Stoplisted7(word) ==
  \/ \E i \in 1..Len(exclude) : exclude[i] = toLowerCase(word)
  \/ AllDigits(word)

\* extractWords(text) of version 7.0: the three patterns, each match kept
\* unless shouldExclude
extractWords7(text, article) ==
  SelectSeq(extractWords(text), LAMBDA w : ~shouldExclude7(w, article))

\* wordOccurrences after trackOccurrences(text), starting from an empty map
trackOccurrences7(text, article) ==
  LET words == extractWords7(text, article)
      RECURSIVE track(_, _)
      track(k, occ) ==
        IF k > Len(words) THEN occ
        ELSE LET lower == toLowerCase(words[k])
                 n == Len(ExecAll(text, words[k], TRUE, 0))
                 at == {i \in 1..Len(occ) : occ[i].term = lower}
             IN track(k + 1,
                      IF n = 0 THEN occ
                      ELSE IF at = {} THEN Append(occ, [term |-> lower, count |-> n])
                      ELSE [occ EXCEPT ![CHOOSE i \in at : TRUE].count = @ + n])
  IN track(1, <<>>)

\* wordOccurrences.get(lowerTerm) || 1
occurrencesOf(occ, lowerTerm) ==
  IF \E i \in 1..Len(occ) : occ[i].term = lowerTerm
  THEN LET n == occ[CHOOSE i \in 1..Len(occ) : occ[i].term = lowerTerm].count
       IN IF n = 0 THEN 1 ELSE n
  ELSE 1

\* the Map checkTermsExist(terms) builds from the registry's answer: the
\* reported title of every requested page that has a pageid, under its lower case
checkTermsExist7(terms, pages) ==
  LET RECURSIVE build(_, _)
      build(k, existing) ==
        IF k > Len(terms) THEN existing
        ELSE LET title == NormalizeTitle(terms[k])
                 at == {i \in 1..Len(existing) : existing[i].term = toLowerCase(title)}
             IN build(k + 1,
                      IF title \notin pages THEN existing
                      ELSE IF at = {}
                           THEN Append(existing, [term |-> toLowerCase(title), original |-> title])
                      ELSE [existing EXCEPT ![CHOOSE i \in at : TRUE].original = title])
  IN build(1, <<>>)

\* allWords.slice(i, i + CONFIG.batchSize) for the k-th batch
batchOf(allWords, k) ==
  SubSeq(allWords, (k - 1) * V7BatchSize + 1,
         IF k * V7BatchSize < Len(allWords) THEN k * V7BatchSize ELSE Len(allWords))

\* relevantTerms after existing.forEach of one batch; the score in hundredths
scoreBatch(terms, existing, articleLinks, occ) ==
  LET RECURSIVE put(_, _)
      put(k, rt) ==
        IF k > Len(existing) THEN rt
        ELSE LET lowerTerm == existing[k].term
                 occurrences == occurrencesOf(occ, lowerTerm)
                 bonus == IF occurrences > 1
                          THEN (IF occurrences * 5 < 20 THEN occurrences * 5 ELSE 20) ELSE 0
                 entry == [term |-> lowerTerm, original |-> existing[k].original,
                           score |-> (IF lowerTerm \in articleLinks THEN 80 ELSE 30) + bonus,
                           count |-> occurrences]
                 at == {i \in 1..Len(rt) : rt[i].term = lowerTerm}
             IN put(k + 1, IF at = {} THEN Append(rt, entry)
                           ELSE [rt EXCEPT ![CHOOSE i \in at : TRUE] = entry])
  IN put(1, terms)

\* the decimal digits of a count, as the template literal writes it
RECURSIVE digitsOf(_)
digitsOf(n) ==
  LET d == <<"0","1","2","3","4","5","6","7","8","9">>
  IN IF n < 10 THEN <<d[n + 1]>> ELSE digitsOf(n \div 10) \o <<d[(n % 10) + 1]>>

\* highlightTextNode(textNode) of version 7.0: the nodes that take the place of
\* the text node; a decoration holds the matched text and, for a count above
\* one, the count badge
highlightTextNode7(text, terms) ==
  LET matches == Flatten([k \in 1..Len(terms) |->
                   LET ms == ExecAll(text, terms[k].original, TRUE, 0)
                   IN [i \in 1..Len(ms) |->
                        [start |-> ms[i].start, end |-> ms[i].end, text |-> ms[i].text,
                         count |-> terms[k].count]]])
      validMatches == AcceptMatches(SortByStart(matches), <<>>)
      lastIdx(k) == IF k = 1 THEN 0 ELSE validMatches[k - 1].end
      between(from, to) ==
        IF to > from THEN <<[text |-> substring(text, from, to), hl |-> FALSE]>> ELSE <<>>
  IN IF validMatches = <<>> THEN <<[text |-> text, hl |-> FALSE]>>
     ELSE Flatten([k \in 1..Len(validMatches) |->
            between(lastIdx(k), validMatches[k].start)
            \o <<[text |-> validMatches[k].text
                           \o (IF validMatches[k].count > 1
                               THEN digitsOf(validMatches[k].count) ELSE <<>>),
                  hl |-> TRUE]>>])
          \o between(validMatches[Len(validMatches)].end, Len(text))

\* highlightInElement(element): every text node outside a decoration
highlightInElement7(nodes, terms) ==
  Flatten([k \in 1..Len(nodes) |->
    IF nodes[k].hl THEN <<nodes[k]>> ELSE highlightTextNode7(nodes[k].text, terms)])

\* applyHighlights() of version 7.0
applyHighlights7(ps, terms) ==
  [k \in 1..Len(ps) |->
    IF ps[k].highlighted THEN ps[k]
    ELSE IF Len(Trim(textContent(ps[k]))) < 50 THEN ps[k]
    ELSE [nodes |-> highlightInElement7(ps[k].nodes, terms), highlighted |-> TRUE]]

\* the else branch of the toggleHL handler: el.replaceWith(el.textContent) for
\* every decoration
removeDecorations(ps) ==
  [k \in 1..Len(ps) |->
    [ps[k] EXCEPT !.nodes = [i \in 1..Len(ps[k].nodes) |->
                               [text |-> ps[k].nodes[i].text, hl |-> FALSE]]]]

\* allText of analyzeArticle: every paragraph's textContent and a line feed
allTextOf(ps) == Flatten([k \in 1..Len(ps) |-> textContent(ps[k]) \o <<"\n">>])

\* analyzeArticle() up to its first await
analyzeArticle7(s) ==
  IF s.isProcessing THEN s
  ELSE LET allText == allTextOf(s.paragraphs)
       IN IF Trim(allText) = <<>>
          THEN [s EXCEPT !.relevantTerms = <<>>, !.wordOccurrences = <<>>]
          ELSE [s EXCEPT !.isProcessing = TRUE, !.relevantTerms = <<>>,
                         !.wordOccurrences = trackOccurrences7(allText, s.currentArticle),
                         !.allText = allText, !.pc = "links"]

\* analyzeArticle() after its loop over the batches
finishAnalysis(s) ==
  [s EXCEPT !.paragraphs = IF s.highlightsEnabled
                           THEN applyHighlights7(s.paragraphs, s.relevantTerms) ELSE @,
            !.isProcessing = FALSE, !.pc = "idle"]

v7Frame ==
  <<ts14Vars, hutVars, root, existingLinks, allRelatedArticles, wordsToHighlight, replaced,
    smartPc, wiki, relevantTerms, wordOccurrences, analyses, highlights, v2, scan>>

\* the paragraphs of the article as the server sent them
V7First == {Filler \o York, Filler \o York \o <<" ","a","n","d"," ">> \o York}

V7Second == {City \o <<" ">> \o Filler, Filler \o York, York}

\* init() has run on an article with or without a heading: currentArticle is
\* set, the side panel exists and the timer of analyzeArticle is pending
V7Init ==
  /\ Idle
  /\ Declared
  /\ paragraphs = <<>>
  /\ validLog = <<>>
  /\ runs = 0
  /\ HutOff
  /\ SmartOff
  /\ SeaOff
  /\ V2Off
  /\ ScanOff
  /\ \E heading \in {<<>>, Paris}, t1 \in V7First, t2 \in V7Second,
        pages \in {{York}, {York, City}}, links \in {{}, {toLowerCase(York)}} :
       v7 = [pc |-> "idle", timer |-> TRUE, currentArticle |-> heading,
             highlightsEnabled |-> TRUE, isProcessing |-> FALSE, relevantTerms |-> <<>>,
             wordOccurrences |-> <<>>, allText |-> <<>>, articleLinks |-> {},
             allWords |-> <<>>, batch |-> 0,
             paragraphs |-> <<[nodes |-> <<[text |-> t1, hl |-> FALSE]>>, highlighted |-> FALSE],
                              [nodes |-> <<[text |-> t2, hl |-> FALSE]>>, highlighted |-> FALSE]>>,
             served |-> <<t1, t2>>, pages |-> pages, links |-> links, clicks |-> 0]

\* setTimeout(analyzeArticle, 1000) of init() fires
V7Timer ==
  /\ v7.pc # "off"
  /\ v7.timer
  /\ \E r \in {analyzeArticle7(v7)} : v7' = [r EXCEPT !.timer = FALSE]
  /\ UNCHANGED v7Frame

\* a click on the refresh button
V7Refresh ==
  /\ v7.pc # "off"
  /\ v7.clicks < MaxClicks
  /\ \E r \in {analyzeArticle7(v7)} : v7' = [r EXCEPT !.clicks = @ + 1]
  /\ UNCHANGED v7Frame

\* fetchArticleLinks() returns, with the links of the article or, after an
\* error, with the empty set; analyzeArticle goes on to its first batch
V7Links ==
  /\ v7.pc = "links"
  /\ \E articleLinks \in {v7.links, {}} :
       \E allWords \in {extractWords7(v7.allText, v7.currentArticle)} :
         v7' = IF allWords = <<>>
               THEN finishAnalysis([v7 EXCEPT !.articleLinks = articleLinks,
                                              !.allWords = allWords])
               ELSE [v7 EXCEPT !.articleLinks = articleLinks, !.allWords = allWords,
                               !.batch = 1, !.pc = "check"]
  /\ UNCHANGED v7Frame

\* checkTermsExist(batch) returns, with the registry's answer or, after an
\* error, with the empty map; the terms of the batch are scored
V7Check ==
  /\ v7.pc = "check"
  /\ \E existing \in {checkTermsExist7(batchOf(v7.allWords, v7.batch), v7.pages), <<>>} :
       \E rt \in {scoreBatch(v7.relevantTerms, existing, v7.articleLinks, v7.wordOccurrences)} :
         v7' = [v7 EXCEPT !.relevantTerms = rt, !.pc = "delay"]
  /\ UNCHANGED v7Frame

\* the delay after a batch is over: the next batch, or the end of analyzeArticle
V7Delay ==
  /\ v7.pc = "delay"
  /\ \E r \in {IF v7.batch * V7BatchSize < Len(v7.allWords)
               THEN [v7 EXCEPT !.batch = @ + 1, !.pc = "check"]
               ELSE finishAnalysis(v7)} : v7' = r
  /\ UNCHANGED v7Frame

\* a click on the toggle button
V7Toggle ==
  /\ v7.pc # "off"
  /\ v7.clicks < MaxClicks
  /\ \E ps \in {IF ~v7.highlightsEnabled
                THEN applyHighlights7(v7.paragraphs, v7.relevantTerms)
                ELSE removeDecorations(v7.paragraphs)} :
       v7' = [v7 EXCEPT !.highlightsEnabled = ~@, !.paragraphs = ps, !.clicks = @ + 1]
  /\ UNCHANGED v7Frame

V7Next == V7Timer \/ V7Refresh \/ V7Links \/ V7Check \/ V7Delay \/ V7Toggle

SpecV7 == V7Init /\ [][V7Next]_vars

\* C22: candidates never span paragraph boundaries: every candidate phrase of
\* analyzeArticle lies wholly inside the text of one paragraph, that is, inside
\* one of the parts of allText that the line feeds separate.
CandidatesInsideOneParagraph ==
  v7.pc \in {"check", "delay"} =>
    \A k \in 1..Len(v7.allWords) :
      /\ includes(v7.allText, v7.allWords[k])
      /\ \A i \in 1..Len(v7.allWords[k]) : v7.allWords[k][i] # "\n"

\* C26: without an article title (currentArticle is the empty string) no
\* candidate is excluded as a self-reference: every match of the three patterns
\* that is neither in the exclude list nor a number is among the candidates that
\* analyzeArticle sends for verification.
NoSelfReferenceWithoutTitle ==
  (v7.currentArticle = <<>> /\ v7.allText # <<>> /\ v7.pc # "links") =>
    \A w \in {extractWords(v7.allText)[k] : k \in 1..Len(extractWords(v7.allText))} :
      ~Stoplisted7(w) => \E k \in 1..Len(v7.allWords) : v7.allWords[k] = w

\* C27: with highlights switched on and no analysis running, every occurrence of
\* a relevant term in a paragraph of 50 characters or more is decorated, also
\* after the highlights were switched off and on again and after a refresh.
DecorationsRestored ==
  (v7.pc = "idle" /\ v7.highlightsEnabled /\ ~v7.isProcessing) =>
    \A i \in 1..Len(v7.paragraphs) :
      Len(Trim(textContent(v7.paragraphs[i]))) >= 50 =>
        \A n \in 1..Len(v7.paragraphs[i].nodes), k \in 1..Len(v7.relevantTerms) :
          v7.paragraphs[i].nodes[n].hl
          \/ ExecAll(v7.paragraphs[i].nodes[n].text, v7.relevantTerms[k].original, TRUE, 0) = <<>>

\* C28: with highlights switched off, the text content of every paragraph is the
\* text content it had before any decoration was applied.
TextRoundTrip ==
  (v7.pc # "off" /\ ~v7.highlightsEnabled) =>
    \A i \in 1..Len(v7.paragraphs) : textContent(v7.paragraphs[i]) = v7.served[i]

====
